---- MODULE Spec2Model ----
(***************************************************************************)
(* A state-machine model of the MenuManager class of src/platmaison.ts    *)
(* (lines 270-591): the catalog of items, the menus with their recipes    *)
(* and ingredient lines, the cost recomputation, and the LLM-backed       *)
(* extraction path pullRecipeFromWebsite / parseAndAddRecipe; and of the  *)
(* PlatMaison class of the same file (lines 35-219), a recipe collection  *)
(* of its own with the extraction path pullFromRecipe.                    *)
(*                                                                         *)
(* JavaScript numbers are modelled as exact rationals extended with       *)
(* Infinity, -Infinity and NaN; strings are sequences of one-character    *)
(* strings; the LLM response is a sequence of lexical tokens.             *)
(***************************************************************************)
EXTENDS Integers, Sequences, FiniteSets, Bags, TLC

VARIABLES items, menus, nextId, pending, last, watch, platMaison

vars == <<items, menus, nextId, pending, last, watch, platMaison>>

----------------------------------------------------------------------------
(* Bounds of the model.                                                    *)

\* Total number of objects alive (items + menus + recipes + ingredient
\* lines + requests in flight).
MaxSize == 5

----------------------------------------------------------------------------
(* JavaScript numbers: <<n, d>> with d > 0 and gcd(n, d) = 1 is the        *)
(* rational n/d; <<1, 0>> is Infinity, <<-1, 0>> is -Infinity and          *)
(* <<0, 0>> is NaN.                                                        *)

Abs(i) == IF i < 0 THEN -i ELSE i

Sign(i) == IF i < 0 THEN -1 ELSE IF i > 0 THEN 1 ELSE 0

RECURSIVE GCD(_, _)
GCD(a, b) == IF b = 0 THEN a ELSE GCD(b, a % b)

Norm(n, d) ==
    IF d = 0 THEN <<Sign(n), 0>>
    ELSE LET g == GCD(Abs(n), Abs(d))
         IN  <<(Sign(d) * n) \div g, Abs(d) \div g>>

N(i) == <<i, 1>>

NaN == <<0, 0>>

IsNaN(a) == a = NaN

NumMul(a, b) == Norm(a[1] * b[1], a[2] * b[2])

NumDiv(a, b) == Norm(a[1] * b[2], a[2] * b[1])

NumAdd(a, b) ==
    IF a[2] = 0 /\ b[2] = 0
    THEN (IF a = b THEN a ELSE NaN)
    ELSE Norm(a[1] * b[2] + b[1] * a[2], a[2] * b[2])

NumLess(a, b) ==
    IF IsNaN(a) \/ IsNaN(b) THEN FALSE
    ELSE IF a[2] = 0 /\ b[2] = 0 THEN a[1] < b[1]
    ELSE a[1] * b[2] < b[1] * a[2]

----------------------------------------------------------------------------
(* JavaScript strings, as sequences of characters.                         *)

\* String.prototype.toLowerCase on the alphabet the model uses.
LowerChar(c) ==
    CASE c = "F" -> "f"
      [] c = "R" -> "r"
      [] c = "W" -> "w"
      [] OTHER -> c

toLowerCase(s) == [i \in 1..Len(s) |-> LowerChar(s[i])]

\* String.prototype.includes.
includes(text, sub) ==
    \E i \in 1..(Len(text) - Len(sub) + 1) :
        SubSeq(text, i, i + Len(sub) - 1) = sub

\* name.split(' ').pop(): the part after the last space.
RECURSIVE splitPop(_)
splitPop(s) ==
    IF s = <<>> THEN <<>>
    ELSE IF s[Len(s)] = " " THEN <<>>
    ELSE Append(splitPop(SubSeq(s, 1, Len(s) - 1)), s[Len(s)])

----------------------------------------------------------------------------
(* The MenuManager store.  A store value is [items, menus, nextId]; an     *)
(* operation yields [s |-> the store after it, err |-> "none" or the error *)
(* it throws, ret |-> what it returns].  An ingredient line holds the      *)
(* position of its Item in the items array: a reference, never a copy.     *)

Result(s, err, ret) == [s |-> s, err |-> err, ret |-> ret]

\* The ids `menu-${n}` and `recipe-${n}` of the template literals.
MenuId(n) == <<"menu", n>>

RecipeId(n) == <<"recipe", n>>

\* Array.prototype.find, as the position of the first match (0: undefined).
RECURSIVE FindFrom(_, _, _)
FindFrom(seq, P(_), i) ==
    IF i > Len(seq) THEN 0
    ELSE IF P(seq[i]) THEN i
    ELSE FindFrom(seq, P, i + 1)

\* findItemByName comparing the names as they are written.
findItemByExactName(its, name) ==
    LET Match(item) == item.name = name
    IN  FindFrom(its, Match, 1)

\* findItemByName that takes a name that is part of the other for a match.
findItemByInclusion(its, name) ==
    LET Match(item) == \/ includes(toLowerCase(item.name), toLowerCase(name))
                       \/ includes(toLowerCase(name), toLowerCase(item.name))
    IN  FindFrom(its, Match, 1)

findItemByName(its, name) ==
    LET Match(item) == toLowerCase(item.name) = toLowerCase(name)
    IN  FindFrom(its, Match, 1)

findMenuById(mns, menuId) ==
    LET Match(m) == m.id = menuId
    IN  FindFrom(mns, Match, 1)

findRecipeById(menu, recipeId) ==
    LET Match(r) == r.id = recipeId
    IN  FindFrom(menu.recipes, Match, 1)

\* Object.assign(target, source).
ObjectAssign(target, source) ==
    [f \in DOMAIN target \cup DOMAIN source |->
        IF f \in DOMAIN source THEN source[f] ELSE target[f]]

\* dishPriceOf with the scaling factor left out of every term.
RECURSIVE dishPriceUnscaled(_, _, _)
dishPriceUnscaled(its, recipe, k) ==
    IF k = 0 THEN N(0)
    ELSE LET ing == recipe.ingredients[k]
             itemCostPerUnit == NumDiv(its[ing.item].price, its[ing.item].quantity)
         IN  NumAdd(dishPriceUnscaled(its, recipe, k - 1),
                    NumMul(itemCostPerUnit, ing.amount))

\* The reduce over recipe.ingredients of recalculateCosts.
RECURSIVE dishPriceOf(_, _, _)
dishPriceOf(its, recipe, k) ==
    IF k = 0 THEN N(0)
    ELSE LET ing == recipe.ingredients[k]
             itemCostPerUnit == NumDiv(its[ing.item].price, its[ing.item].quantity)
         IN  NumAdd(dishPriceOf(its, recipe, k - 1),
                    NumMul(NumMul(itemCostPerUnit, ing.amount), recipe.scalingFactor))

\* The reduce over menu.recipes of recalculateCosts.
RECURSIVE menuCostOf(_, _)
menuCostOf(recipes, k) ==
    IF k = 0 THEN N(0)
    ELSE NumAdd(menuCostOf(recipes, k - 1), recipes[k].dishPrice)

\* recalculateCosts that writes recipe.dishPrice and leaves menu.menuCost.
recalculateRecipeOnly(its, mns, mi, ri) ==
    LET recipe == mns[mi].recipes[ri]
    IN  [mns EXCEPT ![mi].recipes[ri].dishPrice =
                        dishPriceOf(its, recipe, Len(recipe.ingredients))]

\* recalculateCosts that adds the recipe's price to the menuCost it finds.
recalculateCostsAccumulating(its, mns, mi, ri) ==
    LET recipe == mns[mi].recipes[ri]
        price  == dishPriceOf(its, recipe, Len(recipe.ingredients))
    IN  [mns EXCEPT ![mi].recipes[ri].dishPrice = price,
                    ![mi].menuCost = NumAdd(@, price)]

\* recalculateCosts(menu, recipe), on the menus array: mi and ri are the
\* positions of the menu and of the recipe in it.
recalculateCosts(its, mns, mi, ri) ==
    LET recipe   == mns[mi].recipes[ri]
        price    == dishPriceOf(its, recipe, Len(recipe.ingredients))
        recipes1 == [mns[mi].recipes EXCEPT ![ri].dishPrice = price]
    IN  [mns EXCEPT ![mi].recipes = recipes1,
                    ![mi].menuCost = menuCostOf(recipes1, Len(recipes1))]

\* menu.recipes.forEach(recipe => recalculateCosts(menu, recipe)), from
\* recipe ri on.
RECURSIVE recalculateMenuFrom(_, _, _, _)
recalculateMenuFrom(its, mns, mi, ri) ==
    IF ri > Len(mns[mi].recipes) THEN mns
    ELSE recalculateMenuFrom(its, recalculateCosts(its, mns, mi, ri), mi, ri + 1)

RECURSIVE recalculateAllFrom(_, _, _)
recalculateAllFrom(its, mns, mi) ==
    IF mi > Len(mns) THEN mns
    ELSE recalculateAllFrom(its, recalculateMenuFrom(its, mns, mi, 1), mi + 1)

recalculateAllMenuCosts(its, mns) == recalculateAllFrom(its, mns, 1)

enterItem(s, name, price, quantity, units, store) ==
    IF findItemByName(s.items, name) # 0
    THEN Result(s, "ItemExists", <<>>)
    ELSE LET newItem == [name |-> name, price |-> price, quantity |-> quantity,
                         units |-> units, store |-> store, confirmed |-> FALSE]
         IN  Result([s EXCEPT !.items = Append(@, newItem)], "none", newItem)

\* confirmItem without the test of item.confirmed.
confirmItemAgain(s, name) ==
    LET i == findItemByName(s.items, name)
    IN  IF i = 0 THEN Result(s, "ItemNotFound", <<>>)
        ELSE LET s1 == [s EXCEPT !.items[i].confirmed = TRUE]
             IN  Result(s1, "none", s1.items[i])

confirmItem(s, name) ==
    LET i == findItemByName(s.items, name)
    IN  IF i = 0 THEN Result(s, "ItemNotFound", <<>>)
        ELSE IF s.items[i].confirmed THEN Result(s, "AlreadyConfirmed", <<>>)
        ELSE LET s1 == [s EXCEPT !.items[i].confirmed = TRUE]
             IN  Result(s1, "none", s1.items[i])

\* updateItem without the call of recalculateAllMenuCosts.
updateItemNoRecost(s, name, updates) ==
    LET i == findItemByName(s.items, name)
    IN  IF i = 0 THEN Result(s, "ItemNotFound", <<>>)
        ELSE LET its1 == [s.items EXCEPT ![i] = ObjectAssign(@, updates)]
             IN  Result([s EXCEPT !.items = its1], "none", its1[i])

\* updateItem that also writes the name as the caller wrote it.
updateItemRenaming(s, name, updates) ==
    LET i == findItemByName(s.items, name)
    IN  IF i = 0 THEN Result(s, "ItemNotFound", <<>>)
        ELSE LET its1 == [s.items EXCEPT ![i] = [ObjectAssign(@, updates) EXCEPT !.name = name]]
                 mns1 == recalculateAllMenuCosts(its1, s.menus)
             IN  Result([s EXCEPT !.items = its1, !.menus = mns1], "none", its1[i])

\* updateItem that writes the item anew, as enterItem does: not confirmed.
updateItemUnconfirming(s, name, updates) ==
    LET i == findItemByName(s.items, name)
    IN  IF i = 0 THEN Result(s, "ItemNotFound", <<>>)
        ELSE LET its1 == [s.items EXCEPT ![i] = [ObjectAssign(@, updates) EXCEPT !.confirmed = FALSE]]
                 mns1 == recalculateAllMenuCosts(its1, s.menus)
             IN  Result([s EXCEPT !.items = its1, !.menus = mns1], "none", its1[i])

\* updateItem that leaves the item it finds as it is and pushes the updated
\* copy of it as a new entry.
updateItemAsNewEntry(s, name, updates) ==
    LET i == findItemByName(s.items, name)
    IN  IF i = 0 THEN Result(s, "ItemNotFound", <<>>)
        ELSE LET its1 == Append(s.items, ObjectAssign(s.items[i], updates))
                 mns1 == recalculateAllMenuCosts(its1, s.menus)
             IN  Result([s EXCEPT !.items = its1, !.menus = mns1], "none", its1[Len(its1)])

updateItem(s, name, updates) ==
    LET i == findItemByName(s.items, name)
    IN  IF i = 0 THEN Result(s, "ItemNotFound", <<>>)
        ELSE LET its1 == [s.items EXCEPT ![i] = ObjectAssign(@, updates)]
                 mns1 == recalculateAllMenuCosts(its1, s.menus)
             IN  Result([s EXCEPT !.items = its1, !.menus = mns1], "none", its1[i])

createMenu(s, name, date) ==
    LET newMenu == [id |-> MenuId(s.nextId), name |-> name, date |-> date,
                    recipes |-> <<>>, menuCost |-> N(0)]
    IN  Result([s EXCEPT !.menus = Append(@, newMenu), !.nextId = @ + 1],
               "none", newMenu)

\* An argument that is not passed.
undefined == <<>>

\* createRecipe with `recipe-${this.nextId}` for the id: no increment.
createRecipeSameId(s, menuId, name, instructions, servingQuantity, dishType, scalingFactor) ==
    LET mi == findMenuById(s.menus, menuId)
    IN  IF mi = 0 THEN Result(s, "MenuNotFound", <<>>)
        ELSE LET newRecipe == [id |-> RecipeId(s.nextId), name |-> name,
                               instructions |-> instructions,
                               servingQuantity |-> servingQuantity,
                               dishType |-> dishType,
                               scalingFactor |-> IF scalingFactor = undefined
                                                 THEN N(1) ELSE scalingFactor,
                               ingredients |-> <<>>, dishPrice |-> N(0)]
             IN  Result([s EXCEPT !.menus[mi].recipes = Append(@, newRecipe)],
                        "none", newRecipe)

\* createRecipe that puts the new recipe first in the menu.
createRecipeAtFront(s, menuId, name, instructions, servingQuantity, dishType, scalingFactor) ==
    LET mi == findMenuById(s.menus, menuId)
    IN  IF mi = 0 THEN Result(s, "MenuNotFound", <<>>)
        ELSE LET newRecipe == [id |-> RecipeId(s.nextId), name |-> name,
                               instructions |-> instructions,
                               servingQuantity |-> servingQuantity,
                               dishType |-> dishType,
                               scalingFactor |-> IF scalingFactor = undefined
                                                 THEN N(1) ELSE scalingFactor,
                               ingredients |-> <<>>, dishPrice |-> N(0)]
             IN  Result([s EXCEPT !.menus[mi].recipes = <<newRecipe>> \o @,
                                  !.nextId = @ + 1],
                        "none", newRecipe)

\* createRecipe(menuId, name, instructions, servingQuantity, dishType,
\* scalingFactor = 1.0).
createRecipe(s, menuId, name, instructions, servingQuantity, dishType, scalingFactor) ==
    LET mi == findMenuById(s.menus, menuId)
    IN  IF mi = 0 THEN Result(s, "MenuNotFound", <<>>)
        ELSE LET newRecipe == [id |-> RecipeId(s.nextId), name |-> name,
                               instructions |-> instructions,
                               servingQuantity |-> servingQuantity,
                               dishType |-> dishType,
                               scalingFactor |-> IF scalingFactor = undefined
                                                 THEN N(1) ELSE scalingFactor,
                               ingredients |-> <<>>, dishPrice |-> N(0)]
             IN  Result([s EXCEPT !.menus[mi].recipes = Append(@, newRecipe),
                                  !.nextId = @ + 1],
                        "none", newRecipe)

\* recipe.ingredients.find(ing => ing.item.name === itemName).
findIngredient(its, recipe, itemName) ==
    LET Match(ing) == its[ing.item].name = itemName
    IN  FindFrom(recipe.ingredients, Match, 1)

\* updateIngredient that looks the item up before the recipe.
updateIngredientItemFirst(s, menuId, recipeId, itemName, amount) ==
    LET mi == findMenuById(s.menus, menuId)
    IN  IF mi = 0 THEN Result(s, "MenuNotFound", <<>>)
        ELSE
        LET item == findItemByName(s.items, itemName)
        IN  IF item = 0 THEN Result(s, "ItemNotEntered", <<>>)
            ELSE
            LET ri == findRecipeById(s.menus[mi], recipeId)
            IN  IF ri = 0 THEN Result(s, "RecipeNotFound", <<>>)
                ELSE
                LET recipe == s.menus[mi].recipes[ri]
                    existingIngredient == findIngredient(s.items, recipe, itemName)
                    lines == IF existingIngredient # 0
                             THEN [recipe.ingredients EXCEPT ![existingIngredient].amount = amount]
                             ELSE Append(recipe.ingredients, [item |-> item, amount |-> amount])
                    mns1 == [s.menus EXCEPT ![mi].recipes[ri].ingredients = lines]
                    mns2 == recalculateCosts(s.items, mns1, mi, ri)
                IN  Result([s EXCEPT !.menus = mns2], "none", mns2[mi].recipes[ri])

\* updateIngredient that marks the item it puts on a line as confirmed.
updateIngredientConfirming(s, menuId, recipeId, itemName, amount) ==
    LET mi == findMenuById(s.menus, menuId)
    IN  IF mi = 0 THEN Result(s, "MenuNotFound", <<>>)
        ELSE
        LET ri == findRecipeById(s.menus[mi], recipeId)
        IN  IF ri = 0 THEN Result(s, "RecipeNotFound", <<>>)
            ELSE
            LET item == findItemByName(s.items, itemName)
            IN  IF item = 0 THEN Result(s, "ItemNotEntered", <<>>)
                ELSE
                LET recipe == s.menus[mi].recipes[ri]
                    existingIngredient == findIngredient(s.items, recipe, itemName)
                    lines == IF existingIngredient # 0
                             THEN [recipe.ingredients EXCEPT ![existingIngredient].amount = amount]
                             ELSE Append(recipe.ingredients, [item |-> item, amount |-> amount])
                    mns1 == [s.menus EXCEPT ![mi].recipes[ri].ingredients = lines]
                    mns2 == recalculateCosts(s.items, mns1, mi, ri)
                IN  Result([s EXCEPT !.menus = mns2, !.items[item].confirmed = TRUE],
                           "none", mns2[mi].recipes[ri])

\* updateIngredient that takes the amount 0 of a line it finds as the
\* removal of the line.
updateIngredientRemoving(s, menuId, recipeId, itemName, amount) ==
    LET mi == findMenuById(s.menus, menuId)
    IN  IF mi = 0 THEN Result(s, "MenuNotFound", <<>>)
        ELSE
        LET ri == findRecipeById(s.menus[mi], recipeId)
        IN  IF ri = 0 THEN Result(s, "RecipeNotFound", <<>>)
            ELSE
            LET item == findItemByName(s.items, itemName)
            IN  IF item = 0 THEN Result(s, "ItemNotEntered", <<>>)
                ELSE
                LET recipe == s.menus[mi].recipes[ri]
                    existingIngredient == findIngredient(s.items, recipe, itemName)
                    lines == IF existingIngredient # 0 /\ amount = N(0)
                             THEN [k \in 1..(Len(recipe.ingredients) - 1) |->
                                      recipe.ingredients[IF k < existingIngredient THEN k ELSE k + 1]]
                             ELSE IF existingIngredient # 0
                             THEN [recipe.ingredients EXCEPT ![existingIngredient].amount = amount]
                             ELSE Append(recipe.ingredients, [item |-> item, amount |-> amount])
                    mns1 == [s.menus EXCEPT ![mi].recipes[ri].ingredients = lines]
                    mns2 == recalculateCosts(s.items, mns1, mi, ri)
                IN  Result([s EXCEPT !.menus = mns2], "none", mns2[mi].recipes[ri])

updateIngredient(s, menuId, recipeId, itemName, amount) ==
    LET mi == findMenuById(s.menus, menuId)
    IN  IF mi = 0 THEN Result(s, "MenuNotFound", <<>>)
        ELSE
        LET ri == findRecipeById(s.menus[mi], recipeId)
        IN  IF ri = 0 THEN Result(s, "RecipeNotFound", <<>>)
            ELSE
            LET item == findItemByName(s.items, itemName)
            IN  IF item = 0 THEN Result(s, "ItemNotEntered", <<>>)
                ELSE
                LET recipe == s.menus[mi].recipes[ri]
                    existingIngredient == findIngredient(s.items, recipe, itemName)
                    lines == IF existingIngredient # 0
                             THEN [recipe.ingredients EXCEPT ![existingIngredient].amount = amount]
                             ELSE Append(recipe.ingredients, [item |-> item, amount |-> amount])
                    mns1 == [s.menus EXCEPT ![mi].recipes[ri].ingredients = lines]
                    mns2 == recalculateCosts(s.items, mns1, mi, ri)
                IN  Result([s EXCEPT !.menus = mns2], "none", mns2[mi].recipes[ri])


----------------------------------------------------------------------------
(* The extraction path.  The response text of the LLM is a sequence of     *)
(* tokens: an opening brace, a closing brace, a stretch of other text, or  *)
(* the members of a JSON object (all that stands between its braces), held *)
(* as the object they denote.  An object is a function from the keys it    *)
(* has to their values; a key that is null counts as absent.               *)

LBrace == [k |-> "{", v |-> <<>>]

RBrace == [k |-> "}", v |-> <<>>]

Text == [k |-> "text", v |-> <<>>]

Members(obj) == [k |-> "members", v |-> obj]

\* A match wherever the text holds both braces, in either order.
jsonMatchUnordered(responseText) ==
    LET opens  == {i \in 1..Len(responseText) : responseText[i].k = "{"}
        closes == {i \in 1..Len(responseText) : responseText[i].k = "}"}
        first  == CHOOSE i \in opens : \A j \in opens : i <= j
        lastc  == CHOOSE i \in closes : \A j \in closes : j <= i
    IN  IF opens = {} \/ closes = {} THEN <<>>
        ELSE IF first < lastc THEN SubSeq(responseText, first, lastc)
        ELSE SubSeq(responseText, lastc, first)

\* responseText.match(/\{[\s\S]*\}/): the greedy match runs from the first
\* opening brace to the last closing brace after it; <<>> is no match.
jsonMatch(responseText) ==
    LET opens  == {i \in 1..Len(responseText) : responseText[i].k = "{"}
        first  == CHOOSE i \in opens : \A j \in opens : i <= j
        closes == {i \in 1..Len(responseText) :
                      responseText[i].k = "}" /\ opens # {} /\ i > first}
        lastc  == CHOOSE i \in closes : \A j \in closes : j <= i
    IN  IF opens = {} \/ closes = {} THEN <<>>
        ELSE SubSeq(responseText, first, lastc)

\* JSON.parse of a matched span: [ok, value].
JSONparse(span) ==
    IF Len(span) = 2 /\ span[1].k = "{" /\ span[2].k = "}"
    THEN [ok |-> TRUE, value |-> <<>>]
    ELSE IF Len(span) = 3 /\ span[1].k = "{" /\ span[2].k = "members"
                          /\ span[3].k = "}"
    THEN [ok |-> TRUE, value |-> span[2].v]
    ELSE [ok |-> FALSE, value |-> <<>>]

\* The required-field check without its test of parsed.name.
missingFieldsButName(parsed) ==
    \/ "instructions" \notin DOMAIN parsed \/ parsed.instructions = <<>>
    \/ "servingQuantity" \notin DOMAIN parsed
    \/ parsed.servingQuantity = N(0) \/ IsNaN(parsed.servingQuantity)
    \/ "dishType" \notin DOMAIN parsed \/ parsed.dishType = <<>>
    \/ "ingredients" \notin DOMAIN parsed

\* !parsed.name || !parsed.instructions || !parsed.servingQuantity ||
\* !parsed.dishType || !parsed.ingredients: a string is falsy when empty, a
\* number when 0 or NaN, an array never.
missingRequiredFields(parsed) ==
    \/ "name" \notin DOMAIN parsed \/ parsed.name = <<>>
    \/ "instructions" \notin DOMAIN parsed \/ parsed.instructions = <<>>
    \/ "servingQuantity" \notin DOMAIN parsed
    \/ parsed.servingQuantity = N(0) \/ IsNaN(parsed.servingQuantity)
    \/ "dishType" \notin DOMAIN parsed \/ parsed.dishType = <<>>
    \/ "ingredients" \notin DOMAIN parsed

\* ing.name.split(' ') throws a TypeError for an ingredient without a name.
throwsTypeError(parsed) ==
    \E k \in 1..Len(parsed.ingredients) : "name" \notin DOMAIN parsed.ingredients[k]

\* One turn of the loop that counts the mentioned ingredients.
isMentioned(instructionsText, ing) ==
    LET coreName == toLowerCase(splitPop(ing.name))
    IN  coreName # <<>> /\ includes(instructionsText, coreName)

RECURSIVE mentionedIngredients(_, _)
mentionedIngredients(parsed, k) ==
    IF k = 0 THEN 0
    ELSE mentionedIngredients(parsed, k - 1)
         + (IF isMentioned(toLowerCase(parsed.instructions), parsed.ingredients[k])
            THEN 1 ELSE 0)

mentionedPercentage(parsed) ==
    NumMul(NumDiv(N(mentionedIngredients(parsed, Len(parsed.ingredients))),
                  N(Len(parsed.ingredients))),
           N(100))

\* The threshold test with <= in place of <.
semanticValidationFailsAt75(parsed) ==
    \/ NumLess(mentionedPercentage(parsed), N(75))
    \/ mentionedPercentage(parsed) = N(75)

\* if (mentionedPercentage < 75) throw ...
semanticValidationFails(parsed) == NumLess(mentionedPercentage(parsed), N(75))

\* The loop over parsed.ingredients without its try/catch: the first error
\* ends it.
RECURSIVE addIngredientsUncaught(_, _, _, _, _)
addIngredientsUncaught(s, menuId, recipeId, ingredients, k) ==
    IF k > Len(ingredients) THEN s
    ELSE LET r == updateIngredient(s, menuId, recipeId,
                                   ingredients[k].name, ingredients[k].amount)
         IN  IF r.err # "none" THEN s
             ELSE addIngredientsUncaught(r.s, menuId, recipeId, ingredients, k + 1)

\* The loop over parsed.ingredients that enters an item for every name that
\* does not resolve, and then adds the line.
RECURSIVE addIngredientsEntering(_, _, _, _, _)
addIngredientsEntering(s, menuId, recipeId, ingredients, k) ==
    IF k > Len(ingredients) THEN s
    ELSE LET e == enterItem(s, ingredients[k].name, N(0), N(1), <<"l">>, <<"s">>)
             r == updateIngredient(e.s, menuId, recipeId,
                                   ingredients[k].name, ingredients[k].amount)
         IN  addIngredientsEntering(r.s, menuId, recipeId, ingredients, k + 1)

\* The loop over parsed.ingredients that calls updateIngredient in a
\* try/catch: an error is logged as a warning and the loop goes on.
RECURSIVE addIngredients(_, _, _, _, _)
addIngredients(s, menuId, recipeId, ingredients, k) ==
    IF k > Len(ingredients) THEN s
    ELSE LET r == updateIngredient(s, menuId, recipeId,
                                   ingredients[k].name, ingredients[k].amount)
         IN  addIngredients(r.s, menuId, recipeId, ingredients, k + 1)

\* The end of parseAndAddRecipe, past the validation: the recipe is created
\* in the menu at position mi and the ingredients are added to it.
\* storeRecipe that returns with the lines in the recipe and the costs still
\* to be computed.
storeRecipeUnpriced(s, mi, parsed) ==
    LET menuId == s.menus[mi].id
        c  == createRecipe(s, menuId, parsed.name, parsed.instructions,
                           parsed.servingQuantity, parsed.dishType, undefined)
        s2 == addIngredients(c.s, menuId, c.ret.id, parsed.ingredients, 1)
        m2 == findMenuById(s2.menus, menuId)
        r2 == findRecipeById(s2.menus[m2], c.ret.id)
        s3 == [s2 EXCEPT !.menus[m2].recipes[r2].dishPrice = N(0),
                         !.menus[m2].menuCost = s.menus[mi].menuCost]
    IN  Result(s3, "none", s3.menus[m2].recipes[r2])

\* storeRecipe that passes the serving quantity on as the scaling factor.
storeRecipeScaledByServings(s, mi, parsed) ==
    LET menuId == s.menus[mi].id
        c  == createRecipe(s, menuId, parsed.name, parsed.instructions,
                           parsed.servingQuantity, parsed.dishType, parsed.servingQuantity)
        s2 == addIngredients(c.s, menuId, c.ret.id, parsed.ingredients, 1)
        m2 == findMenuById(s2.menus, menuId)
    IN  Result(s2, "none",
               s2.menus[m2].recipes[findRecipeById(s2.menus[m2], c.ret.id)])

storeRecipe(s, mi, parsed) ==
    LET menuId == s.menus[mi].id
        c  == createRecipe(s, menuId, parsed.name, parsed.instructions,
                           parsed.servingQuantity, parsed.dishType, undefined)
        s2 == addIngredients(c.s, menuId, c.ret.id, parsed.ingredients, 1)
        m2 == findMenuById(s2.menus, menuId)
    IN  Result(s2, "none",
               s2.menus[m2].recipes[findRecipeById(s2.menus[m2], c.ret.id)])

\* parseAndAddRecipe with the semantic check before the required-field check.
parseAndAddRecipeSemanticFirst(s, mi, responseText) ==
    LET span == jsonMatch(responseText)
    IN  IF span = <<>> THEN Result(s, "NoJson", <<>>)
        ELSE
        LET p == JSONparse(span)
        IN  IF ~p.ok THEN Result(s, "SyntaxError", <<>>)
            ELSE IF /\ {"instructions", "ingredients"} \subseteq DOMAIN p.value
                    /\ ~throwsTypeError(p.value)
                    /\ semanticValidationFails(p.value)
            THEN Result(s, "SemanticValidationFailed", <<>>)
            ELSE IF missingRequiredFields(p.value)
            THEN Result(s, "MissingFields", <<>>)
            ELSE IF throwsTypeError(p.value) THEN Result(s, "TypeError", <<>>)
            ELSE storeRecipe(s, mi, p.value)

\* Number.prototype.toFixed(0) of a finite number that is not negative: the
\* nearest integer, in decimal digits.
toFixed0(a) == ToString((2 * a[1] + a[2]) \div (2 * a[2]))

\* The message of the Error parseAndAddRecipe throws for a response, as the
\* parts of its template (<<>>: it throws none of its own).
errorMessage(responseText) ==
    LET span == jsonMatch(responseText)
    IN  IF span = <<>> THEN <<"No JSON object found in the LLM response.">>
        ELSE
        LET p == JSONparse(span)
        IN  IF ~p.ok THEN <<>>
            ELSE IF missingRequiredFields(p.value)
            THEN <<"The parsed JSON is missing required fields.">>
            ELSE IF throwsTypeError(p.value) THEN <<>>
            ELSE IF semanticValidationFails(p.value)
            THEN <<"Semantic Validation Failed: Only ",
                   toFixed0(mentionedPercentage(p.value)),
                   "% of ingredients are mentioned in the instructions. The instructions and ingredients may not match.">>
            ELSE <<>>

\* parseAndAddRecipe that logs the error of JSON.parse and returns nothing.
parseAndAddRecipeSwallowing(s, mi, responseText) ==
    LET span == jsonMatch(responseText)
    IN  IF span = <<>> THEN Result(s, "NoJson", <<>>)
        ELSE
        LET p == JSONparse(span)
        IN  IF ~p.ok THEN Result(s, "none", <<>>)
            ELSE IF missingRequiredFields(p.value)
            THEN Result(s, "MissingFields", <<>>)
            ELSE IF throwsTypeError(p.value) THEN Result(s, "TypeError", <<>>)
            ELSE IF semanticValidationFails(p.value)
            THEN Result(s, "SemanticValidationFailed", <<>>)
            ELSE storeRecipe(s, mi, p.value)

\* parseAndAddRecipe with the recipe created before the semantic check.
parseAndAddRecipeEager(s, mi, responseText) ==
    LET span == jsonMatch(responseText)
    IN  IF span = <<>> THEN Result(s, "NoJson", <<>>)
        ELSE
        LET p == JSONparse(span)
        IN  IF ~p.ok THEN Result(s, "SyntaxError", <<>>)
            ELSE IF missingRequiredFields(p.value)
            THEN Result(s, "MissingFields", <<>>)
            ELSE IF throwsTypeError(p.value) THEN Result(s, "TypeError", <<>>)
            ELSE IF semanticValidationFails(p.value)
            THEN Result(storeRecipe(s, mi, p.value).s, "SemanticValidationFailed", <<>>)
            ELSE storeRecipe(s, mi, p.value)

\* parseAndAddRecipe(menu, responseText), menu being the menu at position mi.
parseAndAddRecipe(s, mi, responseText) ==
    LET span == jsonMatch(responseText)
    IN  IF span = <<>> THEN Result(s, "NoJson", <<>>)
        ELSE
        LET p == JSONparse(span)
        IN  IF ~p.ok THEN Result(s, "SyntaxError", <<>>)
            ELSE IF missingRequiredFields(p.value)
            THEN Result(s, "MissingFields", <<>>)
            ELSE IF throwsTypeError(p.value) THEN Result(s, "TypeError", <<>>)
            ELSE IF semanticValidationFails(p.value)
            THEN Result(s, "SemanticValidationFailed", <<>>)
            ELSE storeRecipe(s, mi, p.value)

----------------------------------------------------------------------------
(* Inputs of the operations.                                               *)

flour == <<"f">>

Flour == <<"F">>

rice == <<"r", "i">>

\* A name that rice is part of, and a name that is part of rice.
whiteRice == <<"w", " ", "r", "i">>

ice == <<"i">>

salt == <<"x">>

zest == <<"z">>

tireRubber == <<"t", " ", "z">>

ItemNames == {flour, Flour, rice}

\* The <<price, quantity, units>> items are entered with.
Offers == {<<N(3), N(5), <<"l">>>>, <<N(6), N(0), <<"k">>>>}

Amounts == {N(2), N(0)}

\* The scalingFactor arguments of createRecipe: left out, or 2.
ScalingFactors == {undefined, N(2)}

\* The Partial<Omit<Item, 'name' | 'confirmed'>> values passed to updateItem.
Updates == {[price |-> N(6)], [price |-> N(6), quantity |-> N(0), units |-> <<"k">>]}

Ing(name, amount) == [name |-> name, amount |-> amount]

\* Instructions that mention flour, rice and salt, and nothing else.
mixAll == <<"F", " ", "r", "i", " ", "x">>

Candidate(ingredients) ==
    [name |-> <<"c">>, instructions |-> mixAll, servingQuantity |-> N(4),
     dishType |-> <<"m">>, ingredients |-> ingredients]

Wrap(obj) == <<LBrace, Members(obj), RBrace>>

\* Some resolve, some do not: every ingredient is mentioned.
candPartial == Candidate(<<Ing(salt, N(2)), Ing(Flour, N(2)), Ing(rice, N(0))>>)

\* Three of four ingredients are mentioned: exactly 75%.
candThreeOfFour ==
    Candidate(<<Ing(rice, N(2)), Ing(salt, N(2)), Ing(zest, N(2)), Ing(flour, N(0))>>)

\* Two of three ingredients are mentioned.
candTwoOfThree == Candidate(<<Ing(flour, N(2)), Ing(salt, N(2)), Ing(zest, N(2))>>)

\* No ingredient is mentioned.
candTire == Candidate(<<Ing(tireRubber, N(2))>>)

\* No name, and an ingredient list that is not mentioned either.
candNoName ==
    [instructions |-> mixAll, servingQuantity |-> N(4), dishType |-> <<"m">>,
     ingredients |-> <<Ing(zest, N(2))>>]

candNoIngredients ==
    [name |-> <<"c">>, instructions |-> mixAll, servingQuantity |-> N(4),
     dishType |-> <<"m">>]

\* The same item twice, under names that differ by case.
candCaseTwins == Candidate(<<Ing(Flour, N(2)), Ing(flour, N(0))>>)

\* An ingredient that has an amount and no name.
candNamelessIngredient == Candidate(<<Ing(flour, N(2)), [amount |-> N(2)]>>)

\* Flour, and two names that only look like rice: all three are mentioned.
candLookalikes ==
    Candidate(<<Ing(Flour, N(2)), Ing(whiteRice, N(2)), Ing(ice, N(2))>>)

\* An amount below 0.
candNegativeAmount == Candidate(<<Ing(flour, N(-2))>>)

\* Fields of its own, and one ingredient that is mentioned and is in no
\* catalog.
candSaltOnly ==
    [name |-> <<"n">>, instructions |-> <<"x">>, servingQuantity |-> N(2),
     dishType |-> <<"d">>, ingredients |-> <<Ing(salt, N(2))>>]

\* An ingredient whose name has a tab before its last word, and one whose
\* name ends with a space: the word is mentioned.
candTabbed == Candidate(<<Ing(<<"t", "\t", "x">>, N(2))>>)

candTrailingSpace == Candidate(<<Ing(<<"x", " ">>, N(2))>>)

\* Every required field, and a list of ingredients that is empty.
candEmptyIngredients == Candidate(<<>>)

candZeroServings == [Candidate(<<Ing(flour, N(2))>>) EXCEPT !.servingQuantity = N(0)]

Responses ==
    { Wrap(candPartial),
      Wrap(candThreeOfFour),
      Wrap(candTwoOfThree),
      Wrap(candTire),
      Wrap(candNoName),
      Wrap(candNoIngredients),
      Wrap(candZeroServings),
      Wrap(candCaseTwins),
      Wrap(candEmptyIngredients),
      Wrap(candLookalikes),
      Wrap(candNamelessIngredient),
      <<LBrace, RBrace>>,
      <<Text>>,
      <<RBrace, Text, LBrace>>,
      <<LBrace, Text, RBrace>>,
      <<Text>> \o Wrap(candPartial) \o <<Text>>,
      Wrap(candPartial) \o <<Text, RBrace>>,
      Wrap(candPartial) \o <<Text>> \o Wrap(candTire) }

----------------------------------------------------------------------------
(* The state machine.  items, menus and nextId are the fields of the       *)
(* MenuManager; pending holds, for every pullRecipeFromWebsite call that   *)
(* is suspended at its await, the position of the menu it found.  last is  *)
(* a history variable: the method called latest and how it ended, kept for *)
(* the methods named in watch (and Idle after a call of any other).        *)

S == [items |-> items, menus |-> menus, nextId |-> nextId]

RECURSIVE SumOver(_, _, _)
SumOver(seq, F(_), k) == IF k = 0 THEN 0 ELSE SumOver(seq, F, k - 1) + F(seq[k])

NumLines(recipe) == Len(recipe.ingredients)

NumObjects(menu) == 1 + Len(menu.recipes) + SumOver(menu.recipes, NumLines, Len(menu.recipes))

Size(s, pend) ==
    Len(s.items) + SumOver(s.menus, NumObjects, Len(s.menus)) + BagCardinality(pend)

Idle == [op |-> "none", err |-> "none"]

\* The store becomes r.s and the suspended calls pend, by a call of op.
Becomes(op, r, pend) ==
    /\ Size(r.s, pend) <= MaxSize
    /\ items' = r.s.items
    /\ menus' = r.s.menus
    /\ nextId' = r.s.nextId
    /\ pending' = pend
    /\ last' = IF op \in watch
               THEN [op |-> op, err |-> r.err]
               ELSE Idle
    /\ watch' = watch
    /\ platMaison' = platMaison

\* The menu and recipe ids a caller may pass: those issued, and one not.
MenuIds == {menus[i].id : i \in 1..Len(menus)} \cup {MenuId(nextId)}

RecipeIds ==
    UNION {{menus[i].recipes[j].id : j \in 1..Len(menus[i].recipes)} : i \in 1..Len(menus)}
    \cup {RecipeId(nextId)}

\* The recipe ids a caller may pass along with menuId: those of the recipes
\* of that menu, that of a recipe of another menu, and one not issued.
RecipeIdsWith(menuId) ==
    LET mi    == findMenuById(menus, menuId)
        own   == IF mi = 0 THEN {}
                 ELSE {menus[mi].recipes[j].id : j \in 1..Len(menus[mi].recipes)}
        other == (RecipeIds \ own) \ {RecipeId(nextId)}
    IN  own \cup (IF other = {} THEN {} ELSE {CHOOSE id \in other : TRUE})
            \cup {RecipeId(nextId)}

InitWatching(ops) ==
    /\ items = <<>>
    /\ menus = <<>>
    /\ nextId = 1
    /\ pending = EmptyBag
    /\ last = Idle
    /\ watch = ops
    /\ platMaison = [recipes |-> <<>>, nextId |-> 1]

Init == InitWatching({})

EnterItem ==
    \E name \in ItemNames, offer \in Offers :
        Becomes("enterItem", enterItem(S, name, offer[1], offer[2], offer[3], <<"s">>),
                pending)

ConfirmItem ==
    \E name \in ItemNames :
        Becomes("confirmItem", confirmItem(S, name), pending)

UpdateItem ==
    \E name \in ItemNames, updates \in Updates :
        Becomes("updateItem", updateItem(S, name, updates), pending)

CreateMenu ==
    Becomes("createMenu", createMenu(S, <<"d">>, <<"1">>), pending)

CreateRecipe ==
    \E menuId \in MenuIds, scalingFactor \in ScalingFactors :
        Becomes("createRecipe", createRecipe(S, menuId, <<"c">>, mixAll, N(4), <<"m">>, scalingFactor),
                pending)

UpdateIngredient ==
    \E menuId \in MenuIds :
    \E recipeId \in RecipeIdsWith(menuId), itemName \in ItemNames, amount \in Amounts :
        Becomes("updateIngredient", updateIngredient(S, menuId, recipeId, itemName, amount), pending)

\* pullRecipeFromWebsite up to its await: the menu is looked up, and the
\* call is suspended on llm.executeLLM.
PullStart ==
    \E menuId \in MenuIds :
        LET mi == findMenuById(menus, menuId)
        IN  IF mi = 0
            THEN Becomes("pullRecipeFromWebsite", Result(S, "MenuNotFound", <<>>), pending)
            ELSE Becomes("executeLLM", Result(S, "none", <<>>), pending (+) SetToBag({mi}))

\* llm.executeLLM resolves with a response text and the call runs on to
\* its end.
PullResume ==
    \E mi \in BagToSet(pending), responseText \in Responses :
        Becomes("pullRecipeFromWebsite", parseAndAddRecipe(S, mi, responseText), pending (-) SetToBag({mi}))

\* The responses, and four more: one with fields of its own, one with an
\* amount below 0 and two with whitespace in an ingredient name.
MoreResponses ==
    Responses \cup {Wrap(candSaltOnly), Wrap(candNegativeAmount),
                    Wrap(candTabbed), Wrap(candTrailingSpace)}

\* PullResume with more responses to draw from.
PullResumeMore ==
    \E mi \in BagToSet(pending), responseText \in MoreResponses :
        Becomes("pullRecipeFromWebsite", parseAndAddRecipe(S, mi, responseText), pending (-) SetToBag({mi}))

\* llm.executeLLM rejects, and the call is made again.
PullFailRetrying ==
    \E mi \in BagToSet(pending) :
        Becomes("pullRecipeFromWebsite", Result(S, "LLMError", <<>>), pending)

\* llm.executeLLM rejects, and the call ends with that error.
PullFail ==
    \E mi \in BagToSet(pending) :
        Becomes("pullRecipeFromWebsite", Result(S, "LLMError", <<>>), pending (-) SetToBag({mi}))

Next ==
    \/ EnterItem
    \/ ConfirmItem
    \/ UpdateItem
    \/ CreateMenu
    \/ CreateRecipe
    \/ UpdateIngredient
    \/ PullStart
    \/ PullResume
    \/ PullFail

\* No call is recorded.
Spec == Init /\ [][Next]_vars

\* The calls of one method are recorded.
SpecEnterItem == InitWatching({"enterItem"}) /\ [][Next]_vars

SpecUpdateItem == InitWatching({"updateItem"}) /\ [][Next]_vars

SpecPull == InitWatching({"pullRecipeFromWebsite"}) /\ [][Next]_vars

\* The calls of pullRecipeFromWebsite are recorded, and the LLM has more
\* responses to give.
NextMore ==
    \/ EnterItem
    \/ ConfirmItem
    \/ UpdateItem
    \/ CreateMenu
    \/ CreateRecipe
    \/ UpdateIngredient
    \/ PullStart
    \/ PullResumeMore
    \/ PullFail

SpecPullMore == InitWatching({"pullRecipeFromWebsite"}) /\ [][NextMore]_vars


SpecUpdateIngredient == InitWatching({"updateIngredient"}) /\ [][Next]_vars

SpecCreateRecipe == InitWatching({"createRecipe"}) /\ [][Next]_vars

SpecConfirmItem == InitWatching({"confirmItem"}) /\ [][Next]_vars

----------------------------------------------------------------------------
(* The cost invariants.                                                    *)

AllRecipes == {<<mi, ri>> \in (1..Len(menus)) \X (1..MaxSize) : ri <= Len(menus[mi].recipes)}

\* (item.price / item.quantity) * amount * scalingFactor of one line.
LineCost(its, recipe, ing) ==
    NumMul(NumMul(NumDiv(its[ing.item].price, its[ing.item].quantity), ing.amount),
           recipe.scalingFactor)

\* The sum of the line costs of a recipe, from line k on.
RECURSIVE CostFormula(_, _, _)
CostFormula(its, recipe, k) ==
    IF k > Len(recipe.ingredients) THEN N(0)
    ELSE NumAdd(LineCost(its, recipe, recipe.ingredients[k]),
                CostFormula(its, recipe, k + 1))

\* The sum of the dish prices of a recipe list, from recipe k on.
RECURSIVE PriceSum(_, _)
PriceSum(recipes, k) ==
    IF k > Len(recipes) THEN N(0)
    ELSE NumAdd(recipes[k].dishPrice, PriceSum(recipes, k + 1))

CostsFresh(its, mns) ==
    \A mi \in 1..Len(mns) :
        /\ mns[mi].menuCost = PriceSum(mns[mi].recipes, 1)
        /\ \A ri \in 1..Len(mns[mi].recipes) :
              mns[mi].recipes[ri].dishPrice = CostFormula(its, mns[mi].recipes[ri], 1)

\* C1: in every reachable state every recipe's dishPrice is the sum over its
\* ingredient lines of (item.price / item.quantity) * amount * scalingFactor,
\* with the current price and quantity of the items.
C1_DishPriceIsCostFormula ==
    \A p \in AllRecipes :
        menus[p[1]].recipes[p[2]].dishPrice
            = CostFormula(items, menus[p[1]].recipes[p[2]], 1)

\* Scenario A: flour at 3.00 per pack of 5, amount 2, scaling factor 1: 1.20.
C1_ScenarioA ==
    \E p \in AllRecipes :
        LET recipe == menus[p[1]].recipes[p[2]]
        IN  /\ recipe.scalingFactor = N(1)
            /\ Len(recipe.ingredients) = 1
            /\ recipe.ingredients[1].amount = N(2)
            /\ items[recipe.ingredients[1].item].price = N(3)
            /\ items[recipe.ingredients[1].item].quantity = N(5)
            /\ recipe.dishPrice = <<6, 5>>

\* C2: in every reachable state every menu's menuCost is the sum of the
\* dishPrice of its recipes, 0 for a menu without recipes.
C2_MenuCostIsPriceSum ==
    \A mi \in 1..Len(menus) :
        /\ menus[mi].menuCost = PriceSum(menus[mi].recipes, 1)
        /\ menus[mi].recipes = <<>> => menus[mi].menuCost = N(0)

\* A menu of two recipes, one of them costed, and a cost that is their sum.
C2_TwoRecipeMenu ==
    \E mi \in 1..Len(menus) :
        /\ Len(menus[mi].recipes) = 2
        /\ menus[mi].recipes[1].dishPrice = <<6, 5>>
        /\ menus[mi].recipes[2].dishPrice = N(0)
        /\ menus[mi].menuCost = <<6, 5>>

\* C3: a successful updateItem changes the fields of one item, and after it
\* every recipe of every menu has its dishPrice, and every menu its
\* menuCost, computed from the items as updated.
C3_UpdateItemRecosts ==
    [][(last'.op = "updateItem" /\ last'.err = "none") =>
          /\ \E i \in 1..Len(items), updates \in Updates :
                items' = [items EXCEPT ![i] = ObjectAssign(@, updates)]
          /\ CostsFresh(items', menus')]_vars

\* An updateItem has raised the price of an item of pack quantity 5 from 3 to
\* 6 (items are entered at 3 per 5 or at 6 per 0), and a recipe that uses 2
\* of it costs 12/5.
C3_PriceRaised ==
    /\ last.op = "updateItem" /\ last.err = "none"
    /\ \E p \in AllRecipes :
          LET recipe == menus[p[1]].recipes[p[2]]
          IN  /\ Len(recipe.ingredients) = 1
              /\ recipe.scalingFactor = N(1)
              /\ recipe.ingredients[1].amount = N(2)
              /\ items[recipe.ingredients[1].item].price = N(6)
              /\ items[recipe.ingredients[1].item].quantity = N(5)
              /\ recipe.dishPrice = <<12, 5>>
              /\ menus[p[1]].menuCost = <<12, 5>>

\* C4: every recipe has at most one ingredient line per catalog item.
C4_OneLinePerItem ==
    \A p \in AllRecipes :
        LET lines == menus[p[1]].recipes[p[2]].ingredients
        IN  \A j, k \in 1..Len(lines) : lines[j].item = lines[k].item => j = k

----------------------------------------------------------------------------
(* The catalog.                                                            *)

\* Some item has this name, up to the case of its letters.
Collides(its, name) ==
    \E i \in 1..Len(its) : toLowerCase(its[i].name) = toLowerCase(name)

NoSharedNames(its) ==
    \A i, j \in 1..Len(its) :
        toLowerCase(its[i].name) = toLowerCase(its[j].name) => i = j

\* C5: no two items ever have names that are equal up to case.  enterItem
\* with a name that an item has up to case fails with the duplicate error and
\* changes nothing; with any other name it appends one item, of that name
\* and not confirmed, and changes nothing else.
C5_EnterItemInjective ==
    /\ [](/\ NoSharedNames(items)
          /\ \A name \in ItemNames, offer \in Offers :
                LET r == enterItem(S, name, offer[1], offer[2], offer[3], <<"s">>)
                IN  IF Collides(items, name)
                    THEN r.err = "ItemExists" /\ r.s = S
                    ELSE /\ r.err = "none"
                         /\ Len(r.s.items) = Len(items) + 1
                         /\ SubSeq(r.s.items, 1, Len(items)) = items
                         /\ r.s.items[Len(items) + 1].name = name
                         /\ r.s.items[Len(items) + 1].confirmed = FALSE
                         /\ r.s.menus = menus)
    /\ [][last'.op = "enterItem" =>
             \/ /\ last'.err = "ItemExists"
                /\ items' = items /\ menus' = menus
             \/ /\ last'.err = "none"
                /\ Len(items') = Len(items) + 1
                /\ SubSeq(items', 1, Len(items)) = items
                /\ ~Collides(items, items'[Len(items')].name)
                /\ items'[Len(items')].confirmed = FALSE
                /\ menus' = menus]_vars

\* enterItem has just failed as a duplicate, in a catalog of two items where
\* a name that no item is written with is taken up to case.
C5_CaseCollision ==
    /\ last.op = "enterItem" /\ last.err = "ItemExists"
    /\ Len(items) = 2
    /\ \E name \in ItemNames :
          /\ \A i \in 1..Len(items) : items[i].name # name
          /\ enterItem(S, name, N(3), N(5), <<"l">>, <<"s">>).err = "ItemExists"

----------------------------------------------------------------------------
(* The extraction.                                                         *)

\* The recipe created latest (ids are issued in order).
Newest(recipe) == recipe.id = RecipeId(nextId - 1)

\* What JSON.parse makes of the span matched in a response: [ok, value].
Parsed(responseText) == JSONparse(jsonMatch(responseText))

WellFormed(responseText) ==
    /\ jsonMatch(responseText) # <<>>
    /\ Parsed(responseText).ok
    /\ ~missingRequiredFields(Parsed(responseText).value)
    /\ ~throwsTypeError(Parsed(responseText).value)

\* The part of a name after its last space.
LastToken(name) ==
    LET spaces == {i \in 1..Len(name) : name[i] = " "}
        from   == IF spaces = {} THEN 1
                  ELSE 1 + CHOOSE i \in spaces : \A j \in spaces : j <= i
    IN  SubSeq(name, from, Len(name))

\* The ingredients whose last token occurs in the instructions.
Matched(obj) ==
    {k \in 1..Len(obj.ingredients) :
        /\ LastToken(obj.ingredients[k].name) # <<>>
        /\ includes(toLowerCase(obj.instructions),
                    toLowerCase(LastToken(obj.ingredients[k].name)))}

RecipeCount(mns) == SumOver(mns, LAMBDA m : Len(m.recipes), Len(mns))

\* C6: a response with all required fields and at least one ingredient is
\* rejected with the semantic-mismatch error when matched / total < 0.75, and
\* is accepted, with a recipe created, when matched / total >= 0.75.
C6_SemanticThreshold ==
    \A mi \in BagToSet(pending), responseText \in Responses :
        LET obj == Parsed(responseText).value
            r   == parseAndAddRecipe(S, mi, responseText)
        IN  (WellFormed(responseText) /\ obj.ingredients # <<>>) =>
                IF 4 * Cardinality(Matched(obj)) < 3 * Len(obj.ingredients)
                THEN r.err = "SemanticValidationFailed"
                ELSE /\ r.err = "none"
                     /\ RecipeCount(r.s.menus) = RecipeCount(menus) + 1
                     /\ Len(r.s.menus[mi].recipes) = Len(menus[mi].recipes) + 1

\* A pull has just been accepted and its recipe holds rice, amount 2, in a
\* catalog without flour: the response was the one with three of its four
\* ingredients mentioned.
C6_ExactlyThreeQuarters ==
    /\ last.op = "pullRecipeFromWebsite" /\ last.err = "none"
    /\ ~Collides(items, flour)
    /\ Cardinality(Matched(candThreeOfFour)) = 3
    /\ \E p \in AllRecipes :
          LET recipe == menus[p[1]].recipes[p[2]]
          IN  /\ Newest(recipe)
              /\ Len(recipe.ingredients) = 1
              /\ items[recipe.ingredients[1].item].name = rice
              /\ recipe.ingredients[1].amount = N(2)

\* The ingredients of a list that resolve in the catalog, in their order.
RECURSIVE Resolved(_, _, _)
Resolved(its, ingredients, k) ==
    IF k > Len(ingredients) THEN <<>>
    ELSE IF Collides(its, ingredients[k].name)
    THEN <<ingredients[k]>> \o Resolved(its, ingredients, k + 1)
    ELSE Resolved(its, ingredients, k + 1)

\* Every response that passes the validation and whose ingredient names are
\* distinct under Same is accepted, and its recipe, the last of its menu,
\* has one line per resolved ingredient, for the item it resolves to and
\* with its amount, and a dishPrice that is the cost formula over them.
PartialSuccess(Same(_, _)) ==
    \A mi \in BagToSet(pending), responseText \in Responses :
        LET obj == Parsed(responseText).value
            r   == parseAndAddRecipe(S, mi, responseText)
        IN  (WellFormed(responseText) /\ ~semanticValidationFails(obj)) =>
                /\ r.err = "none"
                /\ (\A j, k \in 1..Len(obj.ingredients) :
                       Same(obj.ingredients[j].name, obj.ingredients[k].name) => j = k) =>
                      LET res   == Resolved(items, obj.ingredients, 1)
                          lines == r.ret.ingredients
                      IN  /\ r.s.items = items
                          /\ Len(lines) = Len(res)
                          /\ \A k \in 1..Len(res) :
                                /\ toLowerCase(items[lines[k].item].name)
                                      = toLowerCase(res[k].name)
                                /\ lines[k].amount = res[k].amount
                          /\ r.ret.dishPrice = CostFormula(items, r.ret, 1)
                          /\ r.ret = r.s.menus[mi].recipes[Len(r.s.menus[mi].recipes)]

\* C7, as stated: the ingredient names are distinct (as strings), R of them
\* resolve, the call succeeds and the recipe has exactly |R| lines.
C7_PartialSuccessAsStated == PartialSuccess(LAMBDA a, b : a = b)

\* C7, amended: a response that passes the validation is accepted however
\* many of its ingredients do not resolve; when its ingredient names are
\* distinct up to case, as item names are, the recipe created has exactly
\* one line per resolved ingredient, with its amount, and a dishPrice that
\* is the cost formula over those lines.
C7_PartialSuccess == PartialSuccess(LAMBDA a, b : toLowerCase(a) = toLowerCase(b))

\* A pull has just been accepted and its recipe holds one line, flour with
\* amount 2 at 6/5, in a catalog without rice: of the three ingredients of
\* the response (salt, Flour, rice) one has resolved and two have not.
C7_OneOfThreeResolved ==
    /\ last.op = "pullRecipeFromWebsite" /\ last.err = "none"
    /\ ~Collides(items, rice) /\ ~Collides(items, salt)
    /\ \E p \in AllRecipes :
          LET recipe == menus[p[1]].recipes[p[2]]
          IN  /\ Newest(recipe)
              /\ Len(recipe.ingredients) = 1
              /\ toLowerCase(items[recipe.ingredients[1].item].name) = flour
              /\ recipe.ingredients[1].amount = N(2)
              /\ recipe.dishPrice = <<6, 5>>

\* C8: a pullRecipeFromWebsite call that ends in an error leaves the items,
\* the menus with their recipes, lines and costs, and the id counter as they
\* were.
C8_RejectionChangesNothing ==
    [][(last'.op = "pullRecipeFromWebsite" /\ last'.err # "none") =>
          (items' = items /\ menus' = menus /\ nextId' = nextId)]_vars

\* A pull has just been rejected by the semantic check, in a store that
\* holds an item and a recipe with a line.
C8_RejectedInFilledStore ==
    /\ last.op = "pullRecipeFromWebsite" /\ last.err = "SemanticValidationFailed"
    /\ items # <<>>
    /\ \E p \in AllRecipes : menus[p[1]].recipes[p[2]].ingredients # <<>>

\* No opening brace of the text has a closing brace after it.
NoSpan(responseText) ==
    ~ \E i, j \in 1..Len(responseText) :
          i < j /\ responseText[i].k = "{" /\ responseText[j].k = "}"

\* C9: a response without a {...} span is rejected with the error 'No JSON
\* object found', and no recipe is created.
C9_NoSpanRejected ==
    \A mi \in BagToSet(pending), responseText \in Responses :
        NoSpan(responseText) =>
            LET r == parseAndAddRecipe(S, mi, responseText)
            IN  /\ r.err = "NoJson"
                /\ r.s.menus = menus
                /\ RecipeCount(r.s.menus) = RecipeCount(menus)

\* A pull has just ended with 'No JSON object found', for a menu that exists.
C9_NoJsonSeen ==
    /\ last.op = "pullRecipeFromWebsite" /\ last.err = "NoJson"
    /\ menus # <<>>
    /\ \E responseText \in Responses : NoSpan(responseText) /\ Len(responseText) > 1

RequiredFields == {"name", "instructions", "servingQuantity", "dishType", "ingredients"}

\* C10: a parsed object that lacks one of the five required fields is
\* rejected with the missing-fields error, whatever the semantic check would
\* say, and no recipe is created.
C10_MissingFieldRejected ==
    \A mi \in BagToSet(pending), responseText \in Responses :
        LET p == Parsed(responseText)
            r == parseAndAddRecipe(S, mi, responseText)
        IN  (jsonMatch(responseText) # <<>> /\ p.ok
                /\ \E f \in RequiredFields : f \notin DOMAIN p.value) =>
                /\ r.err = "MissingFields"
                /\ r.s = S

\* A pull has just ended with the missing-fields error; one of the responses
\* lacks only its name and would also fail the semantic check.
C10_MissingFieldsSeen ==
    /\ last.op = "pullRecipeFromWebsite" /\ last.err = "MissingFields"
    /\ menus # <<>>
    /\ DOMAIN candNoName = RequiredFields \ {"name"}
    /\ semanticValidationFails(candNoName)

\* C11: a parsed object that has every required field and an empty list of
\* ingredients is rejected with the missing-fields error, and nothing is
\* created.
C11_EmptyIngredientsRejected ==
    \A mi \in BagToSet(pending), responseText \in Responses :
        LET p == Parsed(responseText)
            r == parseAndAddRecipe(S, mi, responseText)
        IN  (jsonMatch(responseText) # <<>> /\ p.ok
                /\ RequiredFields \subseteq DOMAIN p.value
                /\ p.value.ingredients = <<>>) =>
                /\ r.err = "MissingFields"
                /\ r.s = S

----------------------------------------------------------------------------
(* The errors of the menu operations.                                      *)

\* The menus that have this id, and the recipes of a menu that have this id.
MenusOf(menuId) == {i \in 1..Len(menus) : menus[i].id = menuId}

RecipesOf(mi, recipeId) ==
    {j \in 1..Len(menus[mi].recipes) : menus[mi].recipes[j].id = recipeId}

\* C12: updateIngredient fails with the menu-not-found error for an unknown
\* menu id, else with the recipe-not-found error for a recipe id that is not
\* in that menu (one of another menu included), else with the item-not-found
\* error for a name that is not in the catalog, else succeeds; and a call
\* that fails changes nothing.
C12_UpdateIngredientErrors ==
    /\ [](\A menuId \in MenuIds, recipeId \in RecipeIds,
             itemName \in ItemNames, amount \in Amounts :
             LET r == updateIngredient(S, menuId, recipeId, itemName, amount)
             IN  IF MenusOf(menuId) = {}
                 THEN r.err = "MenuNotFound" /\ r.s = S
                 ELSE IF \A mi \in MenusOf(menuId) : RecipesOf(mi, recipeId) = {}
                 THEN r.err = "RecipeNotFound" /\ r.s = S
                 ELSE IF ~Collides(items, itemName)
                 THEN r.err = "ItemNotEntered" /\ r.s = S
                 ELSE r.err = "none")
    /\ [][(last'.op = "updateIngredient" /\ last'.err # "none") =>
             (items' = items /\ menus' = menus /\ nextId' = nextId)]_vars

\* updateIngredient has just failed with the recipe-not-found error, in a
\* store where a recipe of one menu, passed along with the id of another
\* menu and a name that is not in the catalog, is not found.
C12_RecipeOfAnotherMenu ==
    /\ last.op = "updateIngredient" /\ last.err = "RecipeNotFound"
    /\ \E mi, mj \in 1..Len(menus), itemName \in ItemNames :
          /\ mi # mj
          /\ menus[mj].recipes # <<>>
          /\ menus[mj].recipes[1].ingredients # <<>>
          /\ ~Collides(items, itemName)
          /\ updateIngredient(S, menus[mi].id, menus[mj].recipes[1].id, itemName, N(2)).err
                = "RecipeNotFound"

\* The recipe createRecipe makes with these arguments and this id.
FreshRecipe(id, scalingFactor) ==
    [id |-> id, name |-> <<"c">>, instructions |-> mixAll, servingQuantity |-> N(4),
     dishType |-> <<"m">>, ingredients |-> <<>>, dishPrice |-> N(0),
     scalingFactor |-> IF scalingFactor = undefined THEN N(1) ELSE scalingFactor]

\* C13: createRecipe fails with the menu-not-found error for an unknown menu
\* id and then changes nothing, the id counter included; otherwise it
\* appends one recipe to the end of that menu's recipes, with no ingredient
\* lines, dishPrice 0 and the scalingFactor given (1 when none is), under an
\* id no recipe has, and changes nothing else: the menuCost of the menu, its
\* other recipes, the other menus and the items are as they were.
C13_CreateRecipeEffect ==
    /\ [](\A menuId \in MenuIds, scalingFactor \in ScalingFactors :
             LET r == createRecipe(S, menuId, <<"c">>, mixAll, N(4), <<"m">>, scalingFactor)
             IN  IF MenusOf(menuId) = {}
                 THEN r.err = "MenuNotFound" /\ r.s = S
                 ELSE /\ r.err = "none"
                      /\ r.ret.id \notin RecipeIds \ {RecipeId(nextId)}
                      /\ r.ret = FreshRecipe(r.ret.id, scalingFactor)
                      /\ r.s.items = items
                      /\ \E mi \in MenusOf(menuId) :
                            r.s.menus = [menus EXCEPT ![mi].recipes = Append(@, r.ret)])
    /\ [][last'.op = "createRecipe" =>
             \/ /\ last'.err = "MenuNotFound"
                /\ items' = items /\ menus' = menus /\ nextId' = nextId
             \/ /\ last'.err = "none"
                /\ items' = items
                /\ \E mi \in 1..Len(menus), scalingFactor \in ScalingFactors :
                      menus' = [menus EXCEPT ![mi].recipes =
                                   Append(@, FreshRecipe(RecipeId(nextId), scalingFactor))]]_vars

\* createRecipe has just added, with the default scalingFactor, a second
\* recipe to a menu whose first recipe costs 6/5: the menuCost is still 6/5.
C13_SecondRecipeByDefault ==
    /\ last.op = "createRecipe" /\ last.err = "none"
    /\ \E mi \in 1..Len(menus) :
          /\ Len(menus[mi].recipes) = 2
          /\ menus[mi].recipes[1].dishPrice = <<6, 5>>
          /\ menus[mi].recipes[2] = FreshRecipe(RecipeId(nextId - 1), undefined)
          /\ menus[mi].recipes[2].scalingFactor = N(1)
          /\ menus[mi].menuCost = <<6, 5>>

----------------------------------------------------------------------------
(* The errors and the frame of the catalog operations.                     *)

\* The items that have this name, up to the case of its letters.
ItemsNamed(name) == {i \in 1..Len(items) : toLowerCase(items[i].name) = toLowerCase(name)}

\* C14: confirmItem fails with the not-found error when no item has the name
\* up to case, and with the already-confirmed error when the item is
\* confirmed, and then changes nothing; otherwise it sets the confirmed flag
\* of that item and changes nothing else.
C14_ConfirmItemEffect ==
    /\ [](\A name \in ItemNames :
             LET r == confirmItem(S, name)
             IN  IF ItemsNamed(name) = {}
                 THEN r.err = "ItemNotFound" /\ r.s = S
                 ELSE \E i \in ItemsNamed(name) :
                         IF items[i].confirmed
                         THEN r.err = "AlreadyConfirmed" /\ r.s = S
                         ELSE /\ r.err = "none"
                              /\ r.s = [S EXCEPT !.items[i].confirmed = TRUE]
                              /\ r.ret = r.s.items[i])
    /\ [][last'.op = "confirmItem" =>
             /\ menus' = menus /\ nextId' = nextId
             /\ \/ /\ last'.err \in {"ItemNotFound", "AlreadyConfirmed"}
                   /\ items' = items
                \/ /\ last'.err = "none"
                   /\ \E i \in 1..Len(items) :
                         /\ ~items[i].confirmed
                         /\ items' = [items EXCEPT ![i].confirmed = TRUE]]_vars

\* confirmItem has just failed as already confirmed, in a catalog of a
\* confirmed item and an unconfirmed one, where a name written in another
\* case than the confirmed item's is already confirmed too.
C14_ConfirmedTwice ==
    /\ last.op = "confirmItem" /\ last.err = "AlreadyConfirmed"
    /\ Len(items) = 2
    /\ \E i, j \in 1..2 : items[i].confirmed /\ ~items[j].confirmed
    /\ \E name \in ItemNames :
          /\ \A i \in 1..Len(items) : items[i].name # name
          /\ confirmItem(S, name).err = "AlreadyConfirmed"

\* C15: in every step every item stays where it is under its name, an item
\* that is confirmed stays confirmed, and an item that is new is not
\* confirmed: the flag starts false and changes at most once, to true.
C15_ConfirmedOnce ==
    [][/\ Len(items') >= Len(items)
       /\ \A i \in 1..Len(items) :
             /\ items'[i].name = items[i].name
             /\ items[i].confirmed => items'[i].confirmed
       /\ \A i \in (Len(items) + 1)..Len(items') : ~items'[i].confirmed]_vars

\* updateItem has just changed the one item of the catalog, which was
\* confirmed before (updateItem confirms nothing) and is used in a recipe:
\* it is still confirmed.
C15_UpdatedWhenConfirmed ==
    /\ last.op = "updateItem" /\ last.err = "none"
    /\ Len(items) = 1
    /\ items[1].confirmed
    /\ \E p \in AllRecipes : menus[p[1]].recipes[p[2]].ingredients # <<>>

\* The menus without what is derived: every dishPrice and menuCost at 0.
Underived(mns) ==
    [mi \in 1..Len(mns) |->
        [mns[mi] EXCEPT !.menuCost = N(0),
                        !.recipes = [ri \in 1..Len(mns[mi].recipes) |->
                                        [mns[mi].recipes[ri] EXCEPT !.dishPrice = N(0)]]]]

\* its2 is its1 with the fields of updates written into item i and nothing
\* else changed: the name and the confirmed flag of item i included.
OnlyUpdated(its1, its2, i, updates) ==
    /\ Len(its2) = Len(its1)
    /\ \A j \in 1..Len(its1) : j # i => its2[j] = its1[j]
    /\ DOMAIN its2[i] = DOMAIN its1[i]
    /\ \A f \in DOMAIN its1[i] :
          its2[i][f] = IF f \in DOMAIN updates THEN updates[f] ELSE its1[i][f]
    /\ its2[i].name = its1[i].name
    /\ its2[i].confirmed = its1[i].confirmed

\* C16: updateItem fails with the not-found error when no item has the name,
\* and then changes nothing; otherwise it writes the given fields of that one
\* item and changes nothing else but the derived dishPrice and menuCost: the
\* item's name and confirmed flag, the other items, the menus, their recipes
\* and every line's item and amount are as they were.
C16_UpdateItemFrame ==
    /\ [](\A name \in ItemNames, updates \in Updates :
             LET r == updateItem(S, name, updates)
             IN  IF ItemsNamed(name) = {}
                 THEN r.err = "ItemNotFound" /\ r.s = S
                 ELSE /\ r.err = "none"
                      /\ \E i \in ItemsNamed(name) :
                            /\ OnlyUpdated(items, r.s.items, i, updates)
                            /\ r.ret = r.s.items[i]
                      /\ Underived(r.s.menus) = Underived(menus)
                      /\ r.s.nextId = nextId)
    /\ [][last'.op = "updateItem" =>
             /\ nextId' = nextId
             /\ \/ /\ last'.err = "ItemNotFound"
                   /\ items' = items /\ menus' = menus
                \/ /\ last'.err = "none"
                   /\ \E i \in 1..Len(items), updates \in Updates :
                         OnlyUpdated(items, items', i, updates)
                   /\ Underived(menus') = Underived(menus)]_vars

\* updateItem has just succeeded in a catalog of two items: one, confirmed
\* and used with amount 2 in a recipe, is at 6 per pack of 5 litres, a price
\* only an update gives; the other is as it was entered.
C16_OneItemOfTwoUpdated ==
    /\ last.op = "updateItem" /\ last.err = "none"
    /\ Len(items) = 2
    /\ \E i, j \in 1..2 :
          /\ items[i].price = N(6) /\ items[i].quantity = N(5)
          /\ items[i].units = <<"l">> /\ items[i].confirmed
          /\ items[j].price = N(3) /\ items[j].quantity = N(5) /\ ~items[j].confirmed
          /\ \E p \in AllRecipes :
                /\ menus[p[1]].recipes[p[2]].ingredients = <<[item |-> i, amount |-> N(2)]>>
                /\ menus[p[1]].recipes[p[2]].dishPrice = <<12, 5>>

\* C17: every item of the catalog has a pack quantity above 0, so that the
\* division price / quantity of the cost computation never divides by 0.
C17_QuantityPositive ==
    \A i \in 1..Len(items) : NumLess(N(0), items[i].quantity)

----------------------------------------------------------------------------
(* The location of the JSON object and the order of the validation.        *)

\* The position where the brace opened before position j closes, depth
\* braces being open at j (0: it does not close).
RECURSIVE BalancedEnd(_, _, _)
BalancedEnd(text, j, depth) ==
    IF j > Len(text) THEN 0
    ELSE IF text[j].k = "{" THEN BalancedEnd(text, j + 1, depth + 1)
    ELSE IF text[j].k = "}"
    THEN (IF depth = 1 THEN j ELSE BalancedEnd(text, j + 1, depth - 1))
    ELSE BalancedEnd(text, j + 1, depth)

\* The first balanced {...} span of a text (<<>>: there is none).
FirstBalancedSpan(text) ==
    LET opens == {i \in 1..Len(text) : text[i].k = "{"}
        first == CHOOSE i \in opens : \A j \in opens : i <= j
    IN  IF opens = {} THEN <<>>
        ELSE IF BalancedEnd(text, first + 1, 1) = 0 THEN <<>>
        ELSE SubSeq(text, first, BalancedEnd(text, first + 1, 1))

\* The span is a candidate that passes the validation.
ValidCandidate(span) ==
    /\ span # <<>>
    /\ JSONparse(span).ok
    /\ ~missingRequiredFields(JSONparse(span).value)
    /\ ~throwsTypeError(JSONparse(span).value)
    /\ JSONparse(span).value.ingredients # <<>>
    /\ ~semanticValidationFails(JSONparse(span).value)

\* C18: a response whose first balanced {...} span is a valid candidate is
\* accepted, whatever follows the span.
C18_FirstBalancedSpan ==
    \A mi \in BagToSet(pending), responseText \in Responses :
        ValidCandidate(FirstBalancedSpan(responseText)) =>
            parseAndAddRecipe(S, mi, responseText).err = "none"

\* A required field is absent from the object, or is an empty string or a
\* servingQuantity of 0.
LacksField(obj) ==
    \E f \in RequiredFields :
        \/ f \notin DOMAIN obj
        \/ f \in {"name", "instructions", "dishType"} /\ obj[f] = <<>>
        \/ f = "servingQuantity" /\ obj[f] \in {N(0), NaN}

\* The step at which the validation of a response stops, the steps being
\* taken in the order locate, parse, required fields, semantic check.
FirstFailure(responseText) ==
    LET obj == Parsed(responseText).value
    IN  IF NoSpan(responseText) THEN "NoJson"
        ELSE IF ~Parsed(responseText).ok THEN "SyntaxError"
        ELSE IF LacksField(obj) THEN "MissingFields"
        ELSE IF \E k \in 1..Len(obj.ingredients) : "name" \notin DOMAIN obj.ingredients[k]
        THEN "TypeError"
        ELSE IF 4 * Cardinality(Matched(obj)) < 3 * Len(obj.ingredients)
        THEN "SemanticValidationFailed"
        ELSE "none"

\* C19: the error of a pull is that of the first step that fails, in the
\* order locate, parse, required fields, semantic check: a response without
\* a span ends in 'No JSON object found' only, and one that lacks a field
\* ends in the missing-fields error whatever its ingredients and
\* instructions.
C19_FirstFailureDecides ==
    \A mi \in BagToSet(pending), responseText \in Responses :
        parseAndAddRecipe(S, mi, responseText).err = FirstFailure(responseText)

\* A pull has just ended with the missing-fields error in a store with an
\* item; some response lacks a field and has fewer than three quarters of its
\* ingredients mentioned, and some has no span.
C19_MissingBeforeMismatch ==
    /\ last.op = "pullRecipeFromWebsite" /\ last.err = "MissingFields"
    /\ items # <<>>
    /\ \E responseText \in Responses :
          LET obj == Parsed(responseText).value
          IN  /\ FirstFailure(responseText) = "MissingFields"
              /\ {"instructions", "ingredients"} \subseteq DOMAIN obj
              /\ 4 * Cardinality(Matched(obj)) < 3 * Len(obj.ingredients)
    /\ \E responseText \in Responses : FirstFailure(responseText) = "NoJson"

\* The names of a list of ingredients that no item has, in their order.
RECURSIVE UnresolvedNames(_, _, _)
UnresolvedNames(its, ingredients, k) ==
    IF k > Len(ingredients) THEN <<>>
    ELSE IF Collides(its, ingredients[k].name)
    THEN UnresolvedNames(its, ingredients, k + 1)
    ELSE <<ingredients[k].name>> \o UnresolvedNames(its, ingredients, k + 1)

\* C20: the value an accepted pull returns to its caller holds the number of
\* ingredients resolved, the number unresolved and the names unresolved: the
\* two numbers add up to the number of ingredients of the candidate, and the
\* names are those that no item of the catalog has.
C20_IntegrationReport ==
    \A mi \in BagToSet(pending), responseText \in Responses :
        LET r   == parseAndAddRecipe(S, mi, responseText)
            obj == Parsed(responseText).value
        IN  r.err = "none" =>
                /\ {"resolved", "unresolved", "unresolvedNames"} \subseteq DOMAIN r.ret
                /\ r.ret.resolved + r.ret.unresolved = Len(obj.ingredients)
                /\ r.ret.unresolved = Len(r.ret.unresolvedNames)
                /\ r.ret.unresolvedNames = UnresolvedNames(items, obj.ingredients, 1)

----------------------------------------------------------------------------
(* The lookup of ingredient names, and what the extraction leaves alone.   *)

\* The names that are looked up: those of the items, and those of the
\* ingredients of the responses.
LookupNames == ItemNames \cup {salt, zest, tireRubber, whiteRice, ice}

\* C21: a name resolves to an item exactly when the two are equal once in
\* lower case, and then to that item; an accepted response gets a line for
\* an ingredient exactly when an item has its name in that sense, and every
\* line of its recipe is for such an item: a name that is part of an item's
\* name, or has one as a part, gets no line.
C21_ExactLookup ==
    /\ \A name \in LookupNames :
          LET i == findItemByName(items, name)
          IN  IF \E j \in 1..Len(items) : toLowerCase(items[j].name) = toLowerCase(name)
              THEN i # 0 /\ toLowerCase(items[i].name) = toLowerCase(name)
              ELSE i = 0
    /\ \A mi \in BagToSet(pending), responseText \in Responses :
          LET obj == Parsed(responseText).value
              r   == parseAndAddRecipe(S, mi, responseText)
          IN  r.err = "none" =>
                 /\ \A k \in 1..Len(obj.ingredients) :
                       (\E l \in 1..Len(r.ret.ingredients) :
                           toLowerCase(items[r.ret.ingredients[l].item].name)
                               = toLowerCase(obj.ingredients[k].name))
                       <=> (\E j \in 1..Len(items) :
                               toLowerCase(items[j].name) = toLowerCase(obj.ingredients[k].name))
                 /\ \A l \in 1..Len(r.ret.ingredients) :
                       \E k \in 1..Len(obj.ingredients) :
                           toLowerCase(items[r.ret.ingredients[l].item].name)
                               = toLowerCase(obj.ingredients[k].name)

\* A pull has just been accepted in a catalog of flour and rice, and its
\* recipe has the one line flour, amount 2: the response was the one with
\* flour, white rice and ice, and neither of the last two has resolved.
C21_WhiteRiceAndIce ==
    /\ last.op = "pullRecipeFromWebsite" /\ last.err = "none"
    /\ Len(items) = 2
    /\ Collides(items, rice) /\ Collides(items, flour)
    /\ includes(whiteRice, rice) /\ includes(rice, ice)
    /\ \E p \in AllRecipes :
          LET recipe == menus[p[1]].recipes[p[2]]
          IN  /\ Newest(recipe)
              /\ Len(recipe.ingredients) = 1
              /\ toLowerCase(items[recipe.ingredients[1].item].name) = flour
              /\ recipe.ingredients[1].amount = N(2)

\* C22: a step of pullRecipeFromWebsite, up to its await or from it on,
\* accepted or not, and a step of updateIngredient leave the list of items
\* and every field of every item as they were.
C22_ExtractionKeepsCatalog ==
    /\ [](/\ \A mi \in BagToSet(pending), responseText \in Responses :
                parseAndAddRecipe(S, mi, responseText).s.items = items
          /\ \A menuId \in MenuIds, recipeId \in RecipeIds,
                itemName \in LookupNames, amount \in Amounts :
                updateIngredient(S, menuId, recipeId, itemName, amount).s.items = items)
    /\ [][last'.op = "pullRecipeFromWebsite" => items' = items]_vars

\* A pull has just been accepted with ingredients that did not resolve, in a
\* catalog of one item, confirmed and at 6 per pack of 5, which the new
\* recipe uses.
C22_AcceptedInSmallCatalog ==
    /\ last.op = "pullRecipeFromWebsite" /\ last.err = "none"
    /\ Len(items) = 1
    /\ items[1].confirmed /\ items[1].price = N(6) /\ items[1].quantity = N(5)
    /\ \E p \in AllRecipes :
          /\ Newest(menus[p[1]].recipes[p[2]])
          /\ menus[p[1]].recipes[p[2]].ingredients = <<[item |-> 1, amount |-> N(2)]>>

----------------------------------------------------------------------------
(* The calls of the LLM.  pending holds one entry per call of              *)
(* llm.executeLLM that has not returned.                                   *)

\* C23: a request makes at most one call of the LLM and never a second one.
\* A step makes at most one call, for a menu that exists, and changes nothing
\* else; a request for a menu that does not exist ends with no call made;
\* and a request that ends, on a failure of the call, a rejection or an
\* acceptance, takes its one call away and makes no other.
C23_OneCallPerRequest ==
    [][/\ BagCardinality(pending') <= BagCardinality(pending) + 1
       /\ BagCardinality(pending') > BagCardinality(pending) =>
             /\ \E mi \in 1..Len(menus) : pending' = pending (+) SetToBag({mi})
             /\ items' = items /\ menus' = menus /\ nextId' = nextId
             /\ last'.op # "pullRecipeFromWebsite"
       /\ last'.op = "pullRecipeFromWebsite" =>
             IF last'.err = "MenuNotFound"
             THEN pending' = pending
             ELSE \E mi \in BagToSet(pending) : pending' = pending (-) SetToBag({mi})]_vars

\* The LLM call of one request has just failed while that of another request
\* for the same menu has not returned: one call is left, none was made again.
C23_FailedNotRetried ==
    /\ last.op = "pullRecipeFromWebsite" /\ last.err = "LLMError"
    /\ BagCardinality(pending) = 1
    /\ items # <<>>
    /\ \E p \in AllRecipes : Newest(menus[p[1]].recipes[p[2]])

\* The errors updateIngredient ends with in the loop over the ingredients,
\* from ingredient k on: those the catch of the loop turns into warnings.
RECURSIVE Warnings(_, _, _, _, _)
Warnings(s, menuId, recipeId, ingredients, k) ==
    IF k > Len(ingredients) THEN {}
    ELSE LET r == updateIngredient(s, menuId, recipeId,
                                   ingredients[k].name, ingredients[k].amount)
         IN  (IF r.err = "none" THEN {} ELSE {r.err})
                 \cup Warnings(r.s, menuId, recipeId, ingredients, k + 1)

\* C24: a response that fails a step of the validation ends the pull with
\* an error, no recipe returned and nothing stored; an accepted one returns
\* its recipe, and the only error turned into a warning on the way is that
\* of an ingredient that is not in the catalog.  A pull that ends returns a
\* recipe, which it has added, or ends with an error, having added none: the
\* failure of the LLM call included.
C24_FailuresSurface ==
    /\ [](\A mi \in BagToSet(pending), responseText \in Responses :
             LET r   == parseAndAddRecipe(S, mi, responseText)
                 obj == Parsed(responseText).value
             IN  IF FirstFailure(responseText) # "none"
                 THEN r.err # "none" /\ r.ret = <<>> /\ r.s = S
                 ELSE /\ r.err = "none"
                      /\ r.ret = r.s.menus[mi].recipes[Len(r.s.menus[mi].recipes)]
                      /\ LET c == createRecipe(S, menus[mi].id, obj.name, obj.instructions,
                                               obj.servingQuantity, obj.dishType, undefined)
                             w == Warnings(c.s, menus[mi].id, c.ret.id, obj.ingredients, 1)
                         IN  /\ w \subseteq {"ItemNotEntered"}
                             /\ w # {} <=> \E k \in 1..Len(obj.ingredients) :
                                              ~Collides(items, obj.ingredients[k].name))
    /\ [][last'.op = "pullRecipeFromWebsite" =>
             IF last'.err = "none"
             THEN RecipeCount(menus') = RecipeCount(menus) + 1
             ELSE /\ last'.err \in {"MenuNotFound", "LLMError", "NoJson", "SyntaxError",
                                     "MissingFields", "TypeError", "SemanticValidationFailed"}
                  /\ menus' = menus]_vars

\* A pull has just ended with the error of JSON.parse, in a store that holds
\* an item and a recipe.
C24_SyntaxErrorSeen ==
    /\ last.op = "pullRecipeFromWebsite" /\ last.err = "SyntaxError"
    /\ items # <<>>
    /\ AllRecipes # {}

\* The parts of a message.
Parts(message) == {message[k] : k \in 1..Len(message)}

\* C25: the message of a missing-fields rejection names a required field that
\* the object lacks, and the message of a semantic rejection holds the share
\* of the ingredients that are mentioned, as computed.
C25_RejectionDetail ==
    \A mi \in BagToSet(pending), responseText \in Responses :
        LET obj == Parsed(responseText).value
            r   == parseAndAddRecipe(S, mi, responseText)
        IN  /\ r.err = "SemanticValidationFailed" =>
                  \E pct \in 0..100 :
                      /\ 2 * Len(obj.ingredients) * pct
                            <= 200 * Cardinality(Matched(obj)) + Len(obj.ingredients)
                      /\ 200 * Cardinality(Matched(obj)) - Len(obj.ingredients)
                            < 2 * Len(obj.ingredients) * pct
                      /\ ToString(pct) \in Parts(errorMessage(responseText))
            /\ r.err = "MissingFields" =>
                  \E f \in RequiredFields :
                      /\ \/ f \notin DOMAIN obj
                         \/ f \in {"name", "instructions", "dishType"} /\ obj[f] = <<>>
                         \/ f = "servingQuantity" /\ obj[f] \in {N(0), NaN}
                      /\ f \in Parts(errorMessage(responseText))

----------------------------------------------------------------------------
(* Identity and lifetime of the objects.                                   *)

\* C26: no two menus have the same id and no two recipes, of one menu or of
\* two, have the same id; every id in the store was issued below the id
\* counter, which never goes down: an id is not issued twice, whatever
\* requests failed or were pending when it was issued.
C26_UniqueIds ==
    /\ [](/\ \A mi, mj \in 1..Len(menus) : menus[mi].id = menus[mj].id => mi = mj
          /\ \A p, q \in AllRecipes :
                menus[p[1]].recipes[p[2]].id = menus[q[1]].recipes[q[2]].id => p = q
          /\ \A mi \in 1..Len(menus) :
                \E n \in 1..(nextId - 1) : menus[mi].id = MenuId(n)
          /\ \A p \in AllRecipes :
                \E n \in 1..(nextId - 1) : menus[p[1]].recipes[p[2]].id = RecipeId(n))
    /\ [][/\ nextId' >= nextId
          /\ nextId' - nextId = (Len(menus') + RecipeCount(menus'))
                                   - (Len(menus) + RecipeCount(menus))]_vars

\* A pull has just been accepted while another was pending: the store holds
\* two menus and two recipes under the four ids 1 to 4.
C26_FourIds ==
    /\ last.op = "pullRecipeFromWebsite" /\ last.err = "none"
    /\ pending # EmptyBag
    /\ Len(menus) = 2
    /\ RecipeCount(menus) = 2
    /\ nextId = 5

\* C27: every ingredient line of every recipe has an amount that is a number
\* and is not below 0.
C27_AmountsNotNegative ==
    \A p \in AllRecipes :
        LET lines == menus[p[1]].recipes[p[2]].ingredients
        IN  \A l \in 1..Len(lines) :
                lines[l].amount = N(0) \/ NumLess(N(0), lines[l].amount)

(***************************************************************************)
(* The recost pass as a function of the store.                             *)
(***************************************************************************)

\* seq read in the order f, and the way back.
Permute(seq, f) == [k \in 1..Len(seq) |-> seq[f[k]]]

Unpermute(seq, f) == [j \in 1..Len(seq) |-> seq[CHOOSE k \in 1..Len(seq) : f[k] = j]]

\* The items as updateItem leaves them for recalculateAllMenuCosts: the
\* update is assigned and no cost has been computed from it yet.
Assigned(i, updates) == [items EXCEPT ![i] = ObjectAssign(@, updates)]

C29_NothingDeleted ==
    [][/\ Len(items') >= Len(items)
       /\ \A i \in 1..Len(items) : items'[i].name = items[i].name
       /\ Len(menus') >= Len(menus)
       /\ \A mi \in 1..Len(menus) :
              /\ menus'[mi].id = menus[mi].id
              /\ Len(menus'[mi].recipes) >= Len(menus[mi].recipes)
              /\ \A ri \in 1..Len(menus[mi].recipes) :
                     LET old == menus[mi].recipes[ri]
                         new == menus'[mi].recipes[ri]
                     IN  /\ new.id = old.id
                         /\ Len(new.ingredients) >= Len(old.ingredients)
                         /\ \A l \in 1..Len(old.ingredients) :
                                new.ingredients[l].item = old.ingredients[l].item]_vars

\* updateIngredient has just returned, and a recipe of two lines has one of
\* amount 0 in front of the other: the line is still there.
C29_ZeroLineKept ==
    /\ last.op = "updateIngredient" /\ last.err = "none"
    /\ \E p \in AllRecipes :
           LET lines == menus[p[1]].recipes[p[2]].ingredients
           IN  Len(lines) = 2 /\ lines[1].amount = N(0) /\ lines[2].amount = N(2)

(***************************************************************************)
(* Calls in flight.                                                        *)
(***************************************************************************)

\* The ids of the menus and recipes there are.
IdsInUse ==
    {menus[mi].id : mi \in 1..Len(menus)}
        \cup {menus[p[1]].recipes[p[2]].id : p \in AllRecipes}

\* C30: with calls of pullRecipeFromWebsite suspended at the await and other
\* operations running in between, every state has every dishPrice and
\* menuCost equal to its formula; whatever response arrives for a suspended
\* call, the rest of the call is one step on the store as it is then: when
\* it accepts it adds one recipe, under an id not in use, at the end of its
\* menu, priced from the items as they are at that moment, and leaves every
\* cost equal to its formula; when it rejects it leaves the store as it is.
\* A step that ends a suspended call ends one, and either leaves the store
\* as it is or is such a run; updateItem leaves the suspended calls
\* suspended.
C30_AtomicAfterAwait ==
    /\ [](/\ CostsFresh(items, menus)
          /\ \A mi \in BagToSet(pending), responseText \in Responses :
                LET r == parseAndAddRecipe(S, mi, responseText)
                IN  IF r.err = "none"
                    THEN /\ r.s.items = items
                         /\ Len(r.s.menus) = Len(menus)
                         /\ RecipeCount(r.s.menus) = RecipeCount(menus) + 1
                         /\ r.ret.id \notin IdsInUse
                         /\ r.s.menus[mi].recipes
                                = Append(menus[mi].recipes, r.ret)
                         /\ r.ret.dishPrice = CostFormula(items, r.ret, 1)
                         /\ CostsFresh(r.s.items, r.s.menus)
                    ELSE r.s = S)
    /\ [][/\ BagCardinality(pending') < BagCardinality(pending) =>
               \E mi \in BagToSet(pending) :
                   /\ pending' = pending (-) SetToBag({mi})
                   /\ \/ items' = items /\ menus' = menus /\ nextId' = nextId
                      \/ \E responseText \in Responses :
                            LET r == parseAndAddRecipe(S, mi, responseText)
                            IN  /\ r.err = "none"
                                /\ items' = r.s.items
                                /\ menus' = r.s.menus
                                /\ nextId' = r.s.nextId
          /\ last'.op = "updateItem" => pending' = pending]_vars

\* updateItem has just set a price of 6 with two calls suspended, and a
\* response that arrives now is accepted with a recipe priced at 6 for 5
\* units: 2 units cost 12/5.
C30_PriceChangedInFlight ==
    /\ last.op = "updateItem" /\ last.err = "none"
    /\ BagCardinality(pending) = 2
    /\ \E i \in 1..Len(items) : items[i].price = N(6) /\ items[i].quantity = N(5)
    /\ \E mi \in BagToSet(pending), responseText \in Responses :
           LET r == parseAndAddRecipe(S, mi, responseText)
           IN  r.err = "none" /\ r.ret.dishPrice = NumDiv(N(12), N(5))

(***************************************************************************)
(* The item of an ingredient line.                                         *)
(***************************************************************************)

\* The ingredient lines of a store: menu, recipe and line positions.
AllLines(mns) ==
    {t \in (1..Len(mns)) \X (1..MaxSize) \X (1..MaxSize) :
        /\ t[2] <= Len(mns[t[1]].recipes)
        /\ t[3] <= Len(mns[t[1]].recipes[t[2]].ingredients)}

\* C31: the item of every ingredient line is an entry of the catalog, the
\* only entry with its name in any letter case and the one a lookup of that
\* name finds; and after any successful updateItem every line on the item of
\* that name, in every recipe, shows the price, quantity and units that the
\* call returns.
C31_LinesReferToCatalog ==
    /\ \A t \in AllLines(menus) :
          LET i == menus[t[1]].recipes[t[2]].ingredients[t[3]].item
          IN  /\ i \in 1..Len(items)
              /\ findItemByName(items, items[i].name) = i
              /\ \A j \in 1..Len(items) :
                    toLowerCase(items[j].name) = toLowerCase(items[i].name) => j = i
    /\ \A name \in ItemNames, updates \in Updates :
          LET r == updateItem(S, name, updates)
          IN  r.err = "none" =>
                  \A t \in AllLines(r.s.menus) :
                      LET i == r.s.menus[t[1]].recipes[t[2]].ingredients[t[3]].item
                      IN  toLowerCase(r.s.items[i].name) = toLowerCase(name) =>
                              /\ r.s.items[i] = r.ret
                              /\ \A f \in DOMAIN updates : r.s.items[i][f] = updates[f]

\* updateItem has just set the price of an item that two lines are on: both
\* lines show the price 6 for the quantity 5, and the recipe costs 2 * 12/5.
C31_TwoLinesSeeNewPrice ==
    /\ last.op = "updateItem" /\ last.err = "none"
    /\ \E p \in AllRecipes :
           LET recipe == menus[p[1]].recipes[p[2]]
           IN  /\ Len(recipe.ingredients) = 2
               /\ \A l \in 1..2 :
                      /\ items[recipe.ingredients[l].item].price = N(6)
                      /\ items[recipe.ingredients[l].item].quantity = N(5)
                      /\ recipe.ingredients[l].amount = N(2)
               /\ recipe.scalingFactor = N(1)
               /\ recipe.dishPrice = NumDiv(N(24), N(5))

(***************************************************************************)
(* The recipe of an accepted response.                                     *)
(***************************************************************************)

\* C32: a response that is accepted for a suspended call adds one recipe,
\* at the end of the menu of the call, and returns it: the recipe has the
\* name, instructions, servingQuantity and dishType of the parsed object and
\* the scaling factor 1, the items and every other menu are as before, and
\* when no ingredient of the object is in the catalog the recipe has no
\* lines and the dishPrice 0. A step that accepts adds one recipe of scaling
\* factor 1 at the end of one menu and nothing else.
C32_AcceptedRecipe ==
    /\ [](\A mi \in BagToSet(pending), responseText \in MoreResponses :
             LET r == parseAndAddRecipe(S, mi, responseText)
                 parsed == Parsed(responseText).value
             IN  r.err = "none" =>
                     /\ r.s.items = items
                     /\ r.s.menus = [menus EXCEPT ![mi].recipes = Append(@, r.ret),
                                                  ![mi].menuCost = r.s.menus[mi].menuCost]
                     /\ r.ret.name = parsed.name
                     /\ r.ret.instructions = parsed.instructions
                     /\ r.ret.servingQuantity = parsed.servingQuantity
                     /\ r.ret.dishType = parsed.dishType
                     /\ r.ret.scalingFactor = N(1)
                     /\ Resolved(items, parsed.ingredients, 1) = <<>> =>
                            r.ret.ingredients = <<>> /\ r.ret.dishPrice = N(0))
    /\ [][(last'.op = "pullRecipeFromWebsite" /\ last'.err = "none") =>
             /\ items' = items
             /\ \E mi \in BagToSet(pending) :
                   /\ Len(menus'[mi].recipes) = Len(menus[mi].recipes) + 1
                   /\ menus'[mi].recipes[Len(menus'[mi].recipes)].scalingFactor = N(1)
                   /\ menus' = [menus EXCEPT ![mi].recipes = menus'[mi].recipes,
                                             ![mi].menuCost = menus'[mi].menuCost]
                   /\ \A ri \in 1..Len(menus[mi].recipes) :
                         menus'[mi].recipes[ri] = menus[mi].recipes[ri]]_vars

\* A response has just been accepted into the second of two menus, with a
\* catalog that has none of its ingredients: the new recipe has the fields of
\* the response, no lines and the dishPrice 0, and the first menu is empty.
C32_NothingResolved ==
    /\ last.op = "pullRecipeFromWebsite" /\ last.err = "none"
    /\ items # <<>>
    /\ Len(menus) = 2 /\ menus[1].recipes = <<>> /\ Len(menus[2].recipes) = 1
    /\ LET recipe == menus[2].recipes[1]
       IN  /\ recipe.name = candSaltOnly.name
           /\ recipe.instructions = candSaltOnly.instructions
           /\ recipe.servingQuantity = candSaltOnly.servingQuantity
           /\ recipe.dishType = candSaltOnly.dishType
           /\ recipe.scalingFactor = N(1)
           /\ recipe.ingredients = <<>> /\ recipe.dishPrice = N(0)

(***************************************************************************)
(* The word of an ingredient name that the instructions must mention.      *)
(***************************************************************************)

Whitespace == {" ", "\t"}

\* The last run of characters of a name that are not whitespace.
LastWord(name) ==
    LET inWord == {i \in 1..Len(name) : name[i] \notin Whitespace}
    IN  IF inWord = {} THEN <<>>
        ELSE LET end   == CHOOSE i \in inWord : \A j \in inWord : j <= i
                 begin == CHOOSE i \in 1..end :
                              /\ \A j \in i..end : j \in inWord
                              /\ i = 1 \/ (i - 1) \notin inWord
             IN  SubSeq(name, begin, end)

\* The ingredients whose last word occurs in the instructions.
MatchedByWord(obj) ==
    {k \in 1..Len(obj.ingredients) :
        /\ LastWord(obj.ingredients[k].name) # <<>>
        /\ includes(toLowerCase(obj.instructions),
                    toLowerCase(LastWord(obj.ingredients[k].name)))}

\* C33: an ingredient counts as mentioned exactly when the last
\* whitespace-delimited word of its name, in lower case, is part of the
\* instructions in lower case: a response with all required fields and at
\* least one ingredient is rejected with the semantic-mismatch error exactly
\* when fewer than 75% of its ingredients count so, and always when none does.
C33_LastWhitespaceToken ==
    \A mi \in BagToSet(pending), responseText \in MoreResponses :
        LET obj == Parsed(responseText).value
            r   == parseAndAddRecipe(S, mi, responseText)
        IN  (WellFormed(responseText) /\ obj.ingredients # <<>>) =>
                /\ \A k \in 1..Len(obj.ingredients) :
                      isMentioned(toLowerCase(obj.instructions), obj.ingredients[k])
                          <=> k \in MatchedByWord(obj)
                /\ r.err = "SemanticValidationFailed"
                      <=> 4 * Cardinality(MatchedByWord(obj)) < 3 * Len(obj.ingredients)

(***************************************************************************)
(* What updateIngredient leaves alone.                                     *)
(***************************************************************************)

\* mns2 is mns1 but for the lines and the dishPrice of the recipe at ri of
\* the menu at mi, and the menuCost of that menu.
SameButRecipe(mns1, mns2, mi, ri) ==
    mns2 = [mns1 EXCEPT ![mi].recipes[ri].ingredients = mns2[mi].recipes[ri].ingredients,
                        ![mi].recipes[ri].dishPrice = mns2[mi].recipes[ri].dishPrice,
                        ![mi].menuCost = mns2[mi].menuCost]

\* C34: a call of updateIngredient that succeeds on a recipe of a menu
\* leaves the items and the id counter as they are, and of the menus it
\* changes nothing but the lines and the dishPrice of that recipe and the
\* menuCost of that menu: every other recipe and menu, and the name,
\* instructions, servingQuantity, dishType, scalingFactor and id of the
\* recipe, are as before.
C34_UpdateIngredientFrame ==
    /\ [](\A menuId \in MenuIds, itemName \in ItemNames, amount \in Amounts :
          \A recipeId \in RecipeIdsWith(menuId) :
             LET r == updateIngredient(S, menuId, recipeId, itemName, amount)
             IN  r.err = "none" =>
                     /\ r.s.items = items
                     /\ r.s.nextId = nextId
                     /\ \E mi \in MenusOf(menuId) : \E ri \in RecipesOf(mi, recipeId) :
                           /\ SameButRecipe(menus, r.s.menus, mi, ri)
                           /\ r.ret = r.s.menus[mi].recipes[ri])
    /\ [][(last'.op = "updateIngredient" /\ last'.err = "none") =>
             /\ items' = items
             /\ nextId' = nextId
             /\ \E p \in AllRecipes : SameButRecipe(menus, menus', p[1], p[2])]_vars

\* updateIngredient has just returned, in a store of two menus: one has a
\* recipe with a line and costs what the line costs, the other one has no
\* recipe and costs nothing.
C34_OtherMenuUntouched ==
    /\ last.op = "updateIngredient" /\ last.err = "none"
    /\ Len(menus) = 2
    /\ \E mi, mj \in 1..2 :
           /\ mi # mj
           /\ Len(menus[mi].recipes) = 1
           /\ Len(menus[mi].recipes[1].ingredients) = 1
           /\ menus[mi].menuCost = NumDiv(N(6), N(5))
           /\ menus[mj].recipes = <<>>
           /\ menus[mj].menuCost = N(0)

----------------------------------------------------------------------------
(* The PlatMaison class: a value of it is [recipes, nextId], and an        *)
(* operation yields [s, err, ret] as above.  A value that JSON.parse       *)
(* returns for the ingredients field is [array |-> its elements] or        *)
(* [string |-> its characters].                                            *)

Arr(elements) == [array |-> elements]

Str(chars) == [string |-> chars]

isArray(value) == "array" \in DOMAIN value

\* !value, for an array or a string.
falsy(value) == ~isArray(value) /\ value.string = <<>>

PlatMaisonCreate(p, name, instructions, servingQuantity, dishType) ==
    LET newRecipe == [id |-> RecipeId(p.nextId), title |-> name,
                      instructions |-> instructions,
                      servingQuantity |-> servingQuantity, dishType |-> dishType,
                      ingredients |-> <<>>]
    IN  Result([recipes |-> Append(p.recipes, newRecipe), nextId |-> p.nextId + 1],
               "none", newRecipe)

getRecipeById(p, recipeId) ==
    LET Match(r) == r.id = recipeId
    IN  FindFrom(p.recipes, Match, 1)

PlatMaisonUpdate(p, recipeId, updates) ==
    LET ri == getRecipeById(p, recipeId)
    IN  IF ri = 0 THEN Result(p, "RecipeNotFound", <<>>)
        ELSE LET p1 == [p EXCEPT !.recipes[ri] = ObjectAssign(@, updates)]
             IN  Result(p1, "none", p1.recipes[ri])

\* const { id, ...restOfUpdates } = updates
restOfUpdates(updates) == [f \in DOMAIN updates \ {"id"} |-> updates[f]]

PlatMaisonUpdateIngredient(p, recipeId, ingredientId, updates) ==
    LET ri == getRecipeById(p, recipeId)
    IN  IF ri = 0 THEN Result(p, "RecipeNotFound", <<>>)
        ELSE
        LET Match(ing) == "id" \in DOMAIN ing /\ ing.id = ingredientId
            k == FindFrom(p.recipes[ri].ingredients, Match, 1)
        IN  IF k = 0 THEN Result(p, "IngredientNotFound", <<>>)
            ELSE LET p1 == [p EXCEPT !.recipes[ri].ingredients[k] =
                                         ObjectAssign(@, restOfUpdates(updates))]
                 IN  Result(p1, "none", p1.recipes[ri].ingredients[k])

\* The id `ing-${newRecipe.id}-${index}`.
IngredientId(recipeId, index) == <<"ing", recipeId, index>>

\* The required-field check of parseAndStoreRecipe.
missingStoreFields(parsed) ==
    \/ "title" \notin DOMAIN parsed \/ parsed.title = <<>>
    \/ "ingredients" \notin DOMAIN parsed \/ falsy(parsed.ingredients)
    \/ "instructions" \notin DOMAIN parsed \/ parsed.instructions = <<>>
    \/ "servingQuantity" \notin DOMAIN parsed
    \/ parsed.servingQuantity = N(0) \/ IsNaN(parsed.servingQuantity)
    \/ "dishType" \notin DOMAIN parsed \/ parsed.dishType = <<>>

\* parsed.ingredients.map((ing, index) => ({ ...ing, id: ... })), on an
\* array.
withIds(elements, recipeId) ==
    [k \in 1..Len(elements) |->
        [f \in DOMAIN elements[k] \cup {"id"} |->
            IF f = "id" THEN IngredientId(recipeId, k - 1) ELSE elements[k][f]]]

parseAndStoreRecipe(p, responseText, url) ==
    IF jsonMatch(responseText) = <<>> THEN Result(p, "NoJson", <<>>)
    ELSE
    LET parsed == JSONparse(jsonMatch(responseText))
    IN  IF ~parsed.ok THEN Result(p, "SyntaxError", <<>>)
        ELSE IF missingStoreFields(parsed.value) THEN Result(p, "MissingFields", <<>>)
        ELSE
        LET c == PlatMaisonCreate(p, parsed.value.title, parsed.value.instructions,
                                  parsed.value.servingQuantity, parsed.value.dishType)
            n == Len(c.s.recipes)
        IN  IF ~isArray(parsed.value.ingredients)
            THEN Result(c.s, "TypeError", <<>>)
            ELSE
            LET stored == [f \in DOMAIN c.ret \cup {"sourceUrl"} |->
                              IF f = "ingredients"
                              THEN withIds(parsed.value.ingredients.array, c.ret.id)
                              ELSE IF f = "sourceUrl" THEN url
                              ELSE c.ret[f]]
            IN  Result([c.s EXCEPT !.recipes[n] = stored], "none", stored)

----------------------------------------------------------------------------
(* What the callers of PlatMaison pass, and what the LLM answers.          *)

Urls == {<<"u">>, <<"v">>}

StoreIng(name) == [name |-> name, quantity |-> N(2), unit |-> <<"l">>]

StoreCandidate(ingredients) ==
    [title |-> <<"c">>, instructions |-> <<"x">>, servingQuantity |-> N(4),
     dishType |-> <<"m">>, ingredients |-> ingredients]

storeTwo == StoreCandidate(Arr(<<StoreIng(flour), StoreIng(salt)>>))

\* An ingredient that comes with an id of its own.
storeOwnId == StoreCandidate(Arr(<<[name |-> rice, id |-> <<"9">>]>>))

storeEmptyList == StoreCandidate(Arr(<<>>))

\* ingredients is a string.
storeText == StoreCandidate(Str(flour))

storeEmptyText == StoreCandidate(Str(<<>>))

storeNoTitle ==
    [instructions |-> <<"x">>, servingQuantity |-> N(4), dishType |-> <<"m">>,
     ingredients |-> Arr(<<StoreIng(flour)>>)]

StoreResponses ==
    { Wrap(storeTwo),
      Wrap(storeOwnId),
      Wrap(storeEmptyList),
      Wrap(storeText),
      Wrap(storeEmptyText),
      Wrap(storeNoTitle),
      <<LBrace, RBrace>>,
      <<Text>>,
      <<LBrace, Text, RBrace>>,
      <<Text>> \o Wrap(storeTwo) \o <<Text>> }

RecipeUpdates == {[title |-> <<"d">>, servingQuantity |-> N(2)]}

IngredientUpdates == {[id |-> <<"9">>, cost |-> N(6)]}

----------------------------------------------------------------------------
(* The PlatMaison state machine: pending holds the url of every call of    *)
(* pullFromRecipe that is suspended at its await, and last the call that   *)
(* returned last.                                                          *)

StoreSize(p, pend) ==
    Len(p.recipes) + SumOver(p.recipes, NumLines, Len(p.recipes)) + BagCardinality(pend)

StoreBecomes(op, r, pend) ==
    /\ StoreSize(r.s, pend) <= MaxSize
    /\ platMaison' = r.s
    /\ pending' = pend
    /\ last' = [op |-> op, err |-> r.err]
    /\ UNCHANGED <<items, menus, nextId, watch>>

\* The recipe ids a caller may pass: those issued, and one not.
StoreRecipeIds ==
    {platMaison.recipes[i].id : i \in 1..Len(platMaison.recipes)}
        \cup {RecipeId(platMaison.nextId)}

\* The ingredient ids a caller may pass along with recipeId: those of the
\* recipe, and one that no recipe has.
StoreIngredientIds(recipeId) ==
    LET ri == getRecipeById(platMaison, recipeId)
    IN  (IF ri = 0 THEN {}
         ELSE {platMaison.recipes[ri].ingredients[k].id :
                  k \in 1..Len(platMaison.recipes[ri].ingredients)})
            \cup {<<"9">>}

Create ==
    StoreBecomes("create", PlatMaisonCreate(platMaison, <<"c">>, <<"x">>, N(4), <<"m">>), pending)

Update ==
    \E recipeId \in StoreRecipeIds, updates \in RecipeUpdates :
        StoreBecomes("update", PlatMaisonUpdate(platMaison, recipeId, updates), pending)

UpdateStoredIngredient ==
    \E recipeId \in StoreRecipeIds, updates \in IngredientUpdates :
    \E ingredientId \in StoreIngredientIds(recipeId) :
        StoreBecomes("updateIngredient",
                     PlatMaisonUpdateIngredient(platMaison, recipeId, ingredientId, updates),
                     pending)

\* pullFromRecipe up to its await.
PullFromRecipeStart ==
    \E url \in Urls :
        StoreBecomes("executeLLM", Result(platMaison, "none", <<>>), pending (+) SetToBag({url}))

\* llm.executeLLM resolves with a response text and the call runs on to
\* its end.
PullFromRecipeResume ==
    \E url \in BagToSet(pending), responseText \in StoreResponses :
        StoreBecomes("pullFromRecipe", parseAndStoreRecipe(platMaison, responseText, url),
                     pending (-) SetToBag({url}))

\* llm.executeLLM rejects, and the call ends with that error.
PullFromRecipeFail ==
    \E url \in BagToSet(pending) :
        StoreBecomes("pullFromRecipe", Result(platMaison, "LLMError", <<>>),
                     pending (-) SetToBag({url}))

NextPlatMaison ==
    \/ Create
    \/ Update
    \/ UpdateStoredIngredient
    \/ PullFromRecipeStart
    \/ PullFromRecipeResume
    \/ PullFromRecipeFail

SpecPlatMaison == Init /\ [][NextPlatMaison]_vars

\* C35: whatever response arrives for a suspended call of pullFromRecipe, the
\* call either returns a recipe that is the one recipe it added to the
\* collection, with the ingredients of the response and the url of the call
\* as sourceUrl, or throws and leaves the collection and the id counter as
\* they were.
C35_AllOrNothing ==
    \A url \in BagToSet(pending), responseText \in StoreResponses :
        LET r == parseAndStoreRecipe(platMaison, responseText, url)
        IN  IF r.err = "none"
            THEN /\ r.s.recipes = Append(platMaison.recipes, r.ret)
                 /\ r.ret.sourceUrl = url
                 /\ Len(r.ret.ingredients)
                        = Len(JSONparse(jsonMatch(responseText)).value.ingredients.array)
            ELSE r.s = platMaison

====
